---- MODULE Spec2Model ----
(***************************************************************************)
(* Model of the Denguess serving process (src/backend/app.py): the         *)
(* process-wide caches (model, feature_names, barangay_encoder,            *)
(* historical_climate), the climate baseline computation, the historical   *)
(* climate estimator, the risk threshold rule and the /predict handler.    *)
(*                                                                         *)
(* Numbers.  Python floats are modelled as exact decimals held in          *)
(* integers: a climate value x is held as x * 10^4 (CScale), a probability *)
(* p as p * 10^5 (PScale).  round(x, n) is modelled as decimal             *)
(* round-half-to-even.  Dates are proleptic Gregorian ordinals, as         *)
(* datetime.toordinal() gives them.                                        *)
(***************************************************************************)
EXTENDS Integers, Sequences, FiniteSets, TLC

VARIABLES
    phase,               \* "boot" before lifespan startup, then "serving"
    disk,                \* the files next to the application: the pickles and climate.csv
    model,               \* app.py:99   global model ("None" or the classifier object)
    barangay_encoder,    \* app.py:100  global barangay_encoder
    historical_climate,  \* app.py:101  global historical_climate (the baseline cache)
    feature_names,       \* app.py:102  global feature_names
    req,                 \* the request of the /predict call in flight
    resp,                \* what that call returned to the transport layer
    features_in,         \* the prepare_features calls that call made, one per week
    met,                 \* what that call met: each week's outcome, a late exception
    call,                \* a direct call of one of the pure functions: its arguments
    ret                  \* and what it returned

vars == <<phase, disk, model, barangay_encoder, historical_climate,
          feature_names, req, resp, features_in, met, call, ret>>

-----------------------------------------------------------------------------
(* Units *)

CScale == 10000
PScale == 100000

\* nearest integer to n / d (d > 0), ties to the even integer: Python round()
RoundHalfEven(n, d) ==
    LET q == n \div d
        r == n % d
    IN  IF 2 * r < d THEN q
        ELSE IF 2 * r > d THEN q + 1
        ELSE IF q % 2 = 0 THEN q ELSE q + 1

\* round(x, 1) of a climate value
Round1(x) == (CScale \div 10) * RoundHalfEven(x, CScale \div 10)

\* round(x, 2) of a climate value given as the fraction n / d
Round2Frac(n, d) == (CScale \div 100) * RoundHalfEven(n, d * (CScale \div 100))

\* round(p, 4) of a probability
Round4(p) == (PScale \div 10000) * RoundHalfEven(p, PScale \div 10000)

Max(a, b) == IF a >= b THEN a ELSE b
Min(a, b) == IF a <= b THEN a ELSE b

-----------------------------------------------------------------------------
(* Calendar: what datetime computes for the handler *)

IsLeap(y) == (y % 4 = 0) /\ ((y % 100 # 0) \/ (y % 400 = 0))

DaysInMonth(y, m) ==
    IF m = 2 THEN (IF IsLeap(y) THEN 29 ELSE 28)
    ELSE IF m \in {4, 6, 9, 11} THEN 30 ELSE 31

DaysBeforeYear(y) ==
    (y - 1) * 365 + (y - 1) \div 4 - (y - 1) \div 100 + (y - 1) \div 400

DaysBeforeMonth(y, m) ==
    <<0, 31, 59, 90, 120, 151, 181, 212, 243, 273, 304, 334>>[m]
    + (IF m > 2 /\ IsLeap(y) THEN 1 ELSE 0)

ToOrdinal(y, m, d) == DaysBeforeYear(y) + DaysBeforeMonth(y, m) + d

\* datetime.fromordinal: year, month and day of ordinal n
Ymd(n) ==
    LET n400 == (n - 1) \div 146097
        r400 == (n - 1) % 146097
        n100 == r400 \div 36524
        r100 == r400 % 36524
        n4 == r100 \div 1461
        r4 == r100 % 1461
        n1 == r4 \div 365
        r1 == r4 % 365
        year == n400 * 400 + 1 + n100 * 100 + n4 * 4 + n1
        leapyear == n1 = 3 /\ (n4 # 24 \/ n100 = 3)
        guess == (r1 + 50) \div 32
        month == IF DaysBeforeMonth(year, guess) > r1 THEN guess - 1 ELSE guess
    IN  IF n1 = 4 \/ n100 = 4
        THEN [y |-> year - 1, m |-> 12, d |-> 31]
        ELSE [y |-> year, m |-> month, d |-> r1 - DaysBeforeMonth(year, month) + 1]

YearOf(n) == Ymd(n).y
MonthOf(n) == Ymd(n).m
DayOf(n) == Ymd(n).d

\* datetime.weekday(): Monday is 0
Weekday(n) == (n + 6) % 7

\* ordinal of the Monday of ISO week 1 of year y
IsoWeek1Monday(y) ==
    LET firstday == ToOrdinal(y, 1, 1)
        firstweekday == Weekday(firstday)
        week1monday == firstday - firstweekday
    IN  IF firstweekday > 3 THEN week1monday + 7 ELSE week1monday

\* target_date.isocalendar().week
IsoWeek(n) ==
    LET y == YearOf(n)
        week == (n - IsoWeek1Monday(y)) \div 7
    IN  IF week < 0 THEN (n - IsoWeek1Monday(y - 1)) \div 7 + 1
        ELSE IF week >= 52 /\ n >= IsoWeek1Monday(y + 1) THEN 1
        ELSE week + 1

\* A date string is modelled by what strptime(s, "%Y-%m-%d") makes of it:
\* wf says the text has the shape digits-digits-digits.
DateStr(wf, y, m, d) == [wf |-> wf, y |-> y, m |-> m, d |-> d]

\* strptime succeeds
DateParses(s) ==
    /\ s.wf
    /\ s.y \in 1..9999
    /\ s.m \in 1..12
    /\ s.d \in 1..DaysInMonth(s.y, s.m)

strptime(s) == ToOrdinal(s.y, s.m, s.d)

\* the request dates explored: some parse, some do not
GoodDates ==
    { DateStr(TRUE, 2025, 1, 6), DateStr(TRUE, 2025, 1, 1), DateStr(TRUE, 2025, 2, 24) }

BadDates == { DateStr(FALSE, 0, 0, 0), DateStr(TRUE, 2025, 2, 30) }

-----------------------------------------------------------------------------
(* Climate triples and the baseline cache *)

Climate(r, t, h) == [rainfall |-> r, temperature |-> t, humidity |-> h]

\* the fixed default triple (100.0, 28.0, 75.0)
DefaultClimate == Climate(100 * CScale, 28 * CScale, 75 * CScale)

\* an optional base_climate argument: None, or a dict with the three keys
NoClimate == [given |-> FALSE, c |-> DefaultClimate]
SomeClimate(c) == [given |-> TRUE, c |-> c]

\* historical_climate = None
NoHistorical == [isNone |-> TRUE, weekly |-> <<>>, monthly |-> <<>>]

\* a variant of RowValid whose bounds are exclusive
RowValid_exclusive(row) ==
    /\ DateParses(row.date)
    /\ row.rainfall > 0 /\ row.rainfall < 500 * CScale
    /\ row.temperature > 20 * CScale /\ row.temperature < 35 * CScale
    /\ row.humidity > 40 * CScale /\ row.humidity < 100 * CScale

\* the row filter of load_historical_climate: rows whose date did not parse
\* are dropped by dropna(), rows out of range by the boolean mask
RowValid(row) ==
    /\ DateParses(row.date)
    /\ row.rainfall >= 0 /\ row.rainfall <= 500 * CScale
    /\ row.temperature >= 20 * CScale /\ row.temperature <= 35 * CScale
    /\ row.humidity >= 40 * CScale /\ row.humidity <= 100 * CScale

RECURSIVE SumField(_, _)
SumField(rows, fld) ==
    IF rows = <<>> THEN 0 ELSE Head(rows)[fld] + SumField(Tail(rows), fld)

\* one groupby(...).agg('mean').round(2) row
GroupMean(rows) ==
    Climate(Round2Frac(SumField(rows, "rainfall"), Len(rows)),
            Round2Frac(SumField(rows, "temperature"), Len(rows)),
            Round2Frac(SumField(rows, "humidity"), Len(rows)))

RowWeek(row) == IsoWeek(strptime(row.date))
RowMonth(row) == MonthOf(strptime(row.date))

\* a variant of ComputeBaseline that leaves the baseline None when no row
\* passes the filter
ComputeBaseline_none_when_empty(rows) ==
    LET df == SelectSeq(rows, RowValid)
        weeks == {RowWeek(df[i]) : i \in DOMAIN df}
        months == {RowMonth(df[i]) : i \in DOMAIN df}
        InWeek(w) == SelectSeq(df, LAMBDA row : RowWeek(row) = w)
        InMonth(m) == SelectSeq(df, LAMBDA row : RowMonth(row) = m)
    IN  IF df = <<>> THEN NoHistorical
        ELSE [isNone |-> FALSE,
              weekly |-> [w \in weeks |-> GroupMean(InWeek(w))],
              monthly |-> [m \in months |-> GroupMean(InMonth(m))]]

\* the dict built from climate.csv
ComputeBaseline(rows) ==
    LET df == SelectSeq(rows, RowValid)
        weeks == {RowWeek(df[i]) : i \in DOMAIN df}
        months == {RowMonth(df[i]) : i \in DOMAIN df}
        InWeek(w) == SelectSeq(df, LAMBDA row : RowWeek(row) = w)
        InMonth(m) == SelectSeq(df, LAMBDA row : RowMonth(row) = m)
    IN  [isNone |-> FALSE,
         weekly |-> [w \in weeks |-> GroupMean(InWeek(w))],
         monthly |-> [m \in months |-> GroupMean(InMonth(m))]]

\* a variant of load_historical_climate that reads climate.csv on every call
load_historical_climate_uncached(hc, csv) ==
    IF csv.state # "missing"
    THEN IF csv.state = "unreadable" THEN hc ELSE ComputeBaseline(csv.rows)
    ELSE hc

\* load_historical_climate(): the value of the global afterwards, which is
\* also what the call returns (None on a read error, the cache otherwise)
load_historical_climate(hc, csv) ==
    IF hc.isNone /\ csv.state # "missing"
    THEN IF csv.state = "unreadable" THEN hc ELSE ComputeBaseline(csv.rows)
    ELSE hc

\* a variant of WeeklyTier with the monthly tier's drift constants
WeeklyTier_monthly_constants(w, week_offset) ==
    IF week_offset > 0
    THEN Climate((w.rainfall * (100 + week_offset * 5)) \div 100,
                 w.temperature + week_offset * 3000,
                 w.humidity + week_offset * 5000)
    ELSE w

\* lines 178-189: the weekly entry, drifted when week_offset > 0
WeeklyTier(w, week_offset) ==
    IF week_offset > 0
    THEN Climate((w.rainfall * (100 + week_offset * 3)) \div 100,
                 w.temperature + week_offset * 2000,
                 w.humidity + week_offset * 3000)
    ELSE w

\* a variant of MonthlyTier that counts the week offsets from 1
MonthlyTier_offset_from_one(m, week_offset) ==
    Climate((m.rainfall * (100 + (week_offset + 1) * 5)) \div 100,
            m.temperature + (week_offset + 1) * 3000,
            m.humidity + (week_offset + 1) * 5000)

\* lines 195-206: the monthly entry, drifted when week_offset > 0
MonthlyTier(m, week_offset) ==
    IF week_offset > 0
    THEN Climate((m.rainfall * (100 + week_offset * 5)) \div 100,
                 m.temperature + week_offset * 3000,
                 m.humidity + week_offset * 5000)
    ELSE m

\* a variant of the estimator that consults the monthly baseline before the
\* weekly one
get_historical_climate_for_date_monthly_first(target_date, base_climate, week_offset, historical) ==
    LET week_of_year == IsoWeek(target_date)
        month == MonthOf(target_date)
        base == base_climate.c
    IN  IF historical.isNone
        THEN IF base_climate.given
             THEN Climate((base.rainfall * (100 + week_offset * 2)) \div 100,
                          base.temperature + week_offset * 1000,
                          base.humidity + week_offset * 5000)
             ELSE DefaultClimate
        ELSE IF month \in DOMAIN historical.monthly
        THEN MonthlyTier(historical.monthly[month], week_offset)
        ELSE IF week_of_year \in DOMAIN historical.weekly
        THEN WeeklyTier(historical.weekly[week_of_year], week_offset)
        ELSE IF base_climate.given
        THEN Climate((base.rainfall * (100 + week_offset * 3)) \div 100,
                     base.temperature + week_offset * 2000,
                     base.humidity + week_offset * 4000)
        ELSE DefaultClimate

\* a variant of the estimator with one set of drift constants for both
\* base_climate fallbacks
get_historical_climate_for_date_one_fallback(target_date, base_climate, week_offset, historical) ==
    LET week_of_year == IsoWeek(target_date)
        month == MonthOf(target_date)
        base == base_climate.c
    IN  IF historical.isNone
        THEN IF base_climate.given
             THEN Climate((base.rainfall * (100 + week_offset * 2)) \div 100,
                          base.temperature + week_offset * 1000,
                          base.humidity + week_offset * 5000)
             ELSE DefaultClimate
        ELSE IF week_of_year \in DOMAIN historical.weekly
        THEN WeeklyTier(historical.weekly[week_of_year], week_offset)
        ELSE IF month \in DOMAIN historical.monthly
        THEN MonthlyTier(historical.monthly[month], week_offset)
        ELSE IF base_climate.given
        THEN Climate((base.rainfall * (100 + week_offset * 2)) \div 100,
                     base.temperature + week_offset * 1000,
                     base.humidity + week_offset * 5000)
        ELSE DefaultClimate

\* get_historical_climate_for_date, given what load_historical_climate()
\* returned to it
get_historical_climate_for_date(target_date, base_climate, week_offset, historical) ==
    LET week_of_year == IsoWeek(target_date)
        month == MonthOf(target_date)
        base == base_climate.c
    IN  IF historical.isNone
        THEN IF base_climate.given
             THEN Climate((base.rainfall * (100 + week_offset * 2)) \div 100,
                          base.temperature + week_offset * 1000,
                          base.humidity + week_offset * 5000)
             ELSE DefaultClimate
        ELSE IF week_of_year \in DOMAIN historical.weekly
        THEN WeeklyTier(historical.weekly[week_of_year], week_offset)
        ELSE IF month \in DOMAIN historical.monthly
        THEN MonthlyTier(historical.monthly[month], week_offset)
        ELSE IF base_climate.given
        THEN Climate((base.rainfall * (100 + week_offset * 3)) \div 100,
                     base.temperature + week_offset * 2000,
                     base.humidity + week_offset * 4000)
        ELSE DefaultClimate

-----------------------------------------------------------------------------
(* Loading the classifier *)

\* load_model(): g holds the four globals; the result holds the globals
\* afterwards and the returned value.  joblib.load of a corrupt file raises,
\* and the except clause returns None with the globals assigned so far kept.
load_model(g, d) ==
    IF g.model = "None" /\ d.model_file # "missing"
    THEN IF d.model_file = "corrupt"
         THEN [g |-> g, ret |-> "None"]
         ELSE LET g1 == [g EXCEPT !.model = d.model_file]
              IN  IF d.feature_names_file = "corrupt"
                  THEN [g |-> g1, ret |-> "None"]
                  ELSE LET g2 == [g1 EXCEPT !.feature_names =
                                     IF d.feature_names_file = "ok" THEN "from_file"
                                     ELSE IF d.model_file \in {"clf", "retrained"} THEN "from_model"
                                     ELSE "default"]
                       IN  IF d.encoder_file = "corrupt"
                           THEN [g |-> g2, ret |-> "None"]
                           ELSE LET g3 == [g2 EXCEPT
                                        !.barangay_encoder =
                                            IF d.encoder_file = "ok" THEN "encoder"
                                            ELSE g2.barangay_encoder,
                                        !.historical_climate =
                                            load_historical_climate(
                                                g2.historical_climate, d.climate_csv)]
                                IN  [g |-> g3, ret |-> g3.model]
    ELSE [g |-> g, ret |-> g.model]

Globals == [model |-> model, barangay_encoder |-> barangay_encoder,
            historical_climate |-> historical_climate,
            feature_names |-> feature_names]

-----------------------------------------------------------------------------
(* Risk thresholds and week labels *)

\* a variant of get_risk_level whose thresholds are inclusive
get_risk_level_inclusive(probability) ==
    IF probability <= 30000 THEN "Low"
    ELSE IF probability <= 60000 THEN "Moderate"
    ELSE "High"

get_risk_level(probability) ==
    IF probability < 30000 THEN "Low"
    ELSE IF probability < 60000 THEN "Moderate"
    ELSE "High"

\* format_week_range: the label names the first and the last day of the week
format_week_range(start_date) ==
    LET end_date == start_date + 6
    IN  [start_month |-> MonthOf(start_date), start_day |-> DayOf(start_date),
         end_month |-> MonthOf(end_date), end_day |-> DayOf(end_date)]

-----------------------------------------------------------------------------
(* Location names.  A string is the sequence of its characters; "~n" and "~N"
   stand for the letter n with a tilde, small and capital. *)

WhiteSpace == {" ", "\t", "\n"}

UpperChars ==
    << "A", "B", "C", "D", "E", "F", "G", "H", "I", "J", "K", "L", "M", "N", "O",
       "P", "Q", "R", "S", "T", "U", "V", "W", "X", "Y", "Z", "~N" >>

LowerChars ==
    << "a", "b", "c", "d", "e", "f", "g", "h", "i", "j", "k", "l", "m", "n", "o",
       "p", "q", "r", "s", "t", "u", "v", "w", "x", "y", "z", "~n" >>

\* str.lower()
lower(s) ==
    [i \in DOMAIN s |->
        IF \E j \in DOMAIN UpperChars : UpperChars[j] = s[i]
        THEN LowerChars[CHOOSE j \in DOMAIN UpperChars : UpperChars[j] = s[i]]
        ELSE s[i]]

\* str.strip()
strip(s) ==
    LET kept == {i \in DOMAIN s : s[i] \notin WhiteSpace}
    IN  IF kept = {} THEN <<>>
        ELSE SubSeq(s, CHOOSE i \in kept : \A j \in kept : i <= j,
                       CHOOSE i \in kept : \A j \in kept : i >= j)

\* the canonical names (lines 333-339)
GeneralPaulinoSantos == <<"G", "e", "n", "e", "r", "a", "l", " ", "P", "a", "u", "l", "i", "n", "o", " ", "S", "a", "n", "t", "o", "s">>
Morales == <<"M", "o", "r", "a", "l", "e", "s">>
SantaCruz == <<"S", "a", "n", "t", "a", " ", "C", "r", "u", "z">>
StoNino == <<"S", "t", "o", ".", " ", "N", "i", "~n", "o">>
ZoneII == <<"Z", "o", "n", "e", " ", "I", "I">>

BARANGAYS == << GeneralPaulinoSantos, Morales, SantaCruz, StoNino, ZoneII >>

\* lines 378-391: the alias table of prepare_features, as << alias, canonical >>
barangay_variations ==
    << << <<"g", "e", "n", "e", "r", "a", "l", " ", "p", "a", "u", "l", "i", "n", "o", " ", "s", "a", "n", "t", "o", "s">>, GeneralPaulinoSantos >>,
       << <<"g", "e", "n", "e", "r", "a", "l", " ", "p", "a", "u", "l", "i", "n", "o">>, GeneralPaulinoSantos >>,
       << <<"g", "p", "s">>, GeneralPaulinoSantos >>,
       << <<"z", "o", "n", "e", " ", "i", "i">>, ZoneII >>,
       << <<"z", "o", "n", "e", " ", "2">>, ZoneII >>,
       << <<"z", "o", "n", "e", "2">>, ZoneII >>,
       << <<"s", "a", "n", "t", "a", " ", "c", "r", "u", "z">>, SantaCruz >>,
       << <<"s", "t", "o", ".", " ", "n", "i", "~n", "o">>, StoNino >>,
       << <<"s", "t", "o", " ", "n", "i", "~n", "o">>, StoNino >>,
       << <<"s", "t", ".", " ", "n", "i", "~n", "o">>, StoNino >>,
       << <<"s", "a", "n", "t", "o", " ", "n", "i", "~n", "o">>, StoNino >>,
       << <<"m", "o", "r", "a", "l", "e", "s">>, Morales >> >>

\* lines 585-598: the alias table of predict, as << alias, canonical >>
predict_barangay_variations ==
    << << <<"g", "e", "n", "e", "r", "a", "l", " ", "p", "a", "u", "l", "i", "n", "o", " ", "s", "a", "n", "t", "o", "s">>, GeneralPaulinoSantos >>,
       << <<"g", "e", "n", "e", "r", "a", "l", " ", "p", "a", "u", "l", "i", "n", "o">>, GeneralPaulinoSantos >>,
       << <<"g", "p", "s">>, GeneralPaulinoSantos >>,
       << <<"z", "o", "n", "e", " ", "i", "i">>, ZoneII >>,
       << <<"z", "o", "n", "e", " ", "2">>, ZoneII >>,
       << <<"z", "o", "n", "e", "2">>, ZoneII >>,
       << <<"s", "a", "n", "t", "a", " ", "c", "r", "u", "z">>, SantaCruz >>,
       << <<"s", "t", "o", ".", " ", "n", "i", "~n", "o">>, StoNino >>,
       << <<"s", "t", "o", " ", "n", "i", "~n", "o">>, StoNino >>,
       << <<"s", "t", ".", " ", "n", "i", "~n", "o">>, StoNino >>,
       << <<"s", "a", "n", "t", "o", " ", "n", "i", "~n", "o">>, StoNino >>,
       << <<"m", "o", "r", "a", "l", "e", "s">>, Morales >> >>

\* dict lookup in a table of pairs
HasKey(tbl, key) == \E i \in DOMAIN tbl : tbl[i][1] = key
Lookup(tbl, key) == tbl[CHOOSE i \in DOMAIN tbl : tbl[i][1] = key][2]

\* lines 419-425: the fallback table of prepare_features, as << name, code >>
barangay_map ==
    << << GeneralPaulinoSantos, 0 >>, << Morales, 1 >>, << SantaCruz, 2 >>,
       << StoNino, 3 >>, << ZoneII, 4 >> >>


-----------------------------------------------------------------------------
(* prepare_features *)

\* One cell of the one-row DataFrame: the expression fn over exact arguments.
\* "int" is a Python int, "float" a float in units of 1/CScale; any other fn
\* names the float expression the code computes from the arguments.
Val(fn, args) == [fn |-> fn, args |-> args]
Num(n) == Val("int", <<n>>)
Flt(x) == Val("float", <<x>>)
Flag(b) == Num(IF b THEN 1 ELSE 0)

\* date.timetuple().tm_yday
DayOfYear(n) == n - ToOrdinal(YearOf(n), 1, 1) + 1

\* lines 377-396: the canonical name prepare_features resolves
prepare_features_barangay_normalized(barangay) ==
    LET barangay_normalized == strip(barangay)
        barangay_lower == lower(barangay_normalized)
    IN  IF HasKey(barangay_variations, barangay_lower)
        THEN Lookup(barangay_variations, barangay_lower)
        ELSE barangay_normalized

\* the global barangay_encoder: None, or a fitted LabelEncoder
NoEncoder == [isNone |-> TRUE, classes |-> <<>>]
LabelEncoder(classes) == [isNone |-> FALSE, classes |-> classes]

\* barangay_encoder.transform([name])[0]: the position of name in classes_,
\* ValueError for a label the encoder has not seen
transform(encoder, name) ==
    IF \E i \in DOMAIN encoder.classes : encoder.classes[i] = name
    THEN [raised |-> FALSE,
          code |-> (CHOOSE i \in DOMAIN encoder.classes : encoder.classes[i] = name) - 1]
    ELSE [raised |-> TRUE, code |-> 0]

\* a variant of encode_barangay that gives names outside the table the code
\* after the last one
encode_barangay_next_code(barangay_normalized, encoder) ==
    IF ~encoder.isNone
    THEN LET t == transform(encoder, barangay_normalized)
         IN  IF ~t.raised THEN t.code ELSE Len(encoder.classes)
    ELSE IF HasKey(barangay_map, barangay_normalized)
         THEN Lookup(barangay_map, barangay_normalized)
         ELSE Len(barangay_map)

\* lines 398-428: barangay_encoded
encode_barangay(barangay_normalized, encoder) ==
    IF ~encoder.isNone
    THEN LET t == transform(encoder, barangay_normalized)
         IN  IF ~t.raised THEN t.code
             ELSE IF \E i \in DOMAIN encoder.classes :
                         encoder.classes[i] = barangay_normalized
                  THEN transform(encoder, barangay_normalized).code
                  ELSE 0
    ELSE IF HasKey(barangay_map, barangay_normalized)
         THEN Lookup(barangay_map, barangay_normalized)
         ELSE 0

\* line 440: quarter = date.timetuple().tm_yday // 91 + 1
ServingQuarter(date) == DayOfYear(date) \div 91 + 1

\* lines 431-496: the dict features, as << name, value >> in insertion order
ComputedFeatures(rainfall, temperature, humidity, barangay_encoded, date) ==
    LET month == MonthOf(date)
        day_of_year == DayOfYear(date)
        temp_optimal == 25 * CScale <= temperature /\ temperature <= 30 * CScale
        humidity_optimal == 60 * CScale <= humidity /\ humidity <= 80 * CScale
    IN  << <<"rainfall", Flt(rainfall)>>,
           <<"temperature", Flt(temperature)>>,
           <<"humidity", Flt(humidity)>>,
           <<"barangay_encoded", Num(barangay_encoded)>>,
           <<"month", Num(month)>>,
           <<"quarter", Num(ServingQuarter(date))>>,
           <<"day_of_year", Num(day_of_year)>>,
           <<"month_sin", Val("sin(2*pi*a/12)", <<month>>)>>,
           <<"month_cos", Val("cos(2*pi*a/12)", <<month>>)>>,
           <<"day_of_year_sin", Val("sin(2*pi*a/365)", <<day_of_year>>)>>,
           <<"day_of_year_cos", Val("cos(2*pi*a/365)", <<day_of_year>>)>>,
           <<"temp_rainfall_interaction", Val("a*b", <<temperature, rainfall>>)>>,
           <<"temp_humidity_interaction", Val("a*b", <<temperature, humidity>>)>>,
           <<"rainfall_humidity_interaction", Val("a*b", <<rainfall, humidity>>)>>,
           <<"temp_rainfall_humidity_interaction",
             Val("a*b*c", <<temperature, rainfall, humidity>>)>>,
           <<"rainfall_squared", Val("a**2", <<rainfall>>)>>,
           <<"temperature_squared", Val("a**2", <<temperature>>)>>,
           <<"humidity_squared", Val("a**2", <<humidity>>)>>,
           <<"rainfall_sqrt", Val("sqrt(a+1e-6)", <<rainfall>>)>>,
           <<"temperature_sqrt", Val("sqrt(a+1e-6)", <<temperature>>)>>,
           <<"rainfall_temp_ratio", Val("a/(b+1e-6)", <<rainfall, temperature>>)>>,
           <<"humidity_temp_ratio", Val("a/(b+1e-6)", <<humidity, temperature>>)>>,
           <<"rainfall_humidity_ratio", Val("a/(b+1e-6)", <<rainfall, humidity>>)>>,
           <<"mosquito_breeding_index",
             Val("(a-20)*(b/100)*(c/100)", <<temperature, humidity, rainfall>>)>>,
           <<"dengue_risk_index",
             Val("(a/30)*(b/80)*log1p(c/10)", <<temperature, humidity, rainfall>>)>>,
           <<"is_rainy_season", Flag(month \in {6, 7, 8, 9, 10, 11})>>,
           <<"is_dry_season", Flag(month \in {12, 1, 2, 3, 4, 5})>>,
           <<"is_peak_season", Flag(month \in {7, 8, 9})>>,
           <<"temp_optimal", Flag(temp_optimal)>>,
           <<"temp_high", Flag(temperature > 30 * CScale)>>,
           <<"temp_low", Flag(temperature < 25 * CScale)>>,
           <<"humidity_optimal", Flag(humidity_optimal)>>,
           <<"humidity_high", Flag(humidity > 80 * CScale)>>,
           <<"humidity_low", Flag(humidity < 60 * CScale)>>,
           <<"rainfall_high", Flag(rainfall > 100 * CScale)>>,
           <<"rainfall_moderate",
             Flag(50 * CScale <= rainfall /\ rainfall <= 100 * CScale)>>,
           <<"rainfall_low", Flag(rainfall < 50 * CScale)>>,
           <<"high_risk_combination",
             Flag(temp_optimal /\ humidity_optimal /\ rainfall > 100 * CScale)>> >>

\* the global feature_names: None, or a list of column names
NoFeatureNames == [isNone |-> TRUE, list |-> <<>>]
FeatureNames(list) == [isNone |-> FALSE, list |-> list]

\* a variant of Reindex that leaves out the columns the builder did not
\* compute
Reindex_computed_only(features, names) ==
    LET kept == SelectSeq(names, LAMBDA feat : HasKey(features, feat))
    IN  [i \in DOMAIN kept |-> << kept[i], Lookup(features, kept[i]) >>]

\* lines 502-509: the columns of feature_names, in its order, a column the
\* builder did not compute holding 0
Reindex(features, names) ==
    [i \in DOMAIN names |->
        << names[i], IF HasKey(features, names[i]) THEN Lookup(features, names[i])
                     ELSE Num(0) >>]

\* prepare_features (lines 368-511) with the globals it reads: encoder is
\* barangay_encoder and names is feature_names
prepare_features(rainfall, temperature, humidity, barangay, date, encoder, names) ==
    LET barangay_normalized == prepare_features_barangay_normalized(barangay)
        barangay_encoded == encode_barangay(barangay_normalized, encoder)
        features == ComputedFeatures(rainfall, temperature, humidity,
                                     barangay_encoded, date)
    IN  IF names.isNone THEN features ELSE Reindex(features, names.list)

\* retrain_model.py line 122 and retrain_model_enhanced.py line 135:
\* df_fe['quarter'] = df_fe['date'].dt.quarter, the calendar quarter
create_advanced_features_quarter(date) == (MonthOf(date) - 1) \div 3 + 1

-----------------------------------------------------------------------------
(* The /predict handler *)

\* a variant of ClampClimate that only caps the values from above
ClampClimate_no_floor(c) ==
    Climate(c.rainfall, Min(35 * CScale, c.temperature), Min(100 * CScale, c.humidity))

\* lines 639-641: the clamp applied to every week's climate_data
ClampClimate(c) ==
    Climate(Max(0, c.rainfall),
            Max(20 * CScale, Min(35 * CScale, c.temperature)),
            Max(40 * CScale, Min(100 * CScale, c.humidity)))

\* the climate_used entry of a record
ClimateUsed(c, source) ==
    [rainfall |-> Round1(c.rainfall), temperature |-> Round1(c.temperature),
     humidity |-> Round1(c.humidity), source |-> source]

WeekResult(week, risk, probability, climate_used) ==
    [week |-> week, risk |-> risk, probability |-> probability,
     outbreak_probability |-> probability, climate_used |-> climate_used]

\* the record both except clauses build (lines 699-710 and 740-751)
FallbackRecord(week_str, climate) ==
    WeekResult(week_str, "Moderate", 45000, ClimateUsed(climate, "fallback"))

\* a variant of ClimateAccepted without the humidity check
ClimateAccepted_humidity_unchecked(c) ==
    /\ 0 <= c.temperature /\ c.temperature <= 50 * CScale
    /\ ~(c.rainfall < 0)

\* lines 577-582
ClimateAccepted(c) ==
    /\ 0 <= c.temperature /\ c.temperature <= 50 * CScale
    /\ 0 <= c.humidity /\ c.humidity <= 100 * CScale
    /\ ~(c.rainfall < 0)

\* a variant of Admit that goes on without a classifier
Admit_without_classifier(request, g, d) ==
    LET lm == load_model(g, d)
        g1 == IF g.model = "None" THEN [lm.g EXCEPT !.model = lm.ret] ELSE g
    IN  [g |-> g1,
         status |-> IF ~ClimateAccepted(request.climate) THEN "http_400"
                    ELSE IF ~DateParses(request.date) THEN "http_400"
                    ELSE "ok"]

\* a variant of predict_barangay_normalized that does not trim the name
predict_barangay_normalized_untrimmed(barangay) ==
    IF HasKey(predict_barangay_variations, lower(barangay))
    THEN Lookup(predict_barangay_variations, lower(barangay))
    ELSE barangay

\* lines 584-601: the name predict hands to prepare_features
predict_barangay_normalized(barangay) ==
    LET barangay_normalized == strip(barangay)
        barangay_lower == lower(barangay_normalized)
    IN  IF HasKey(predict_barangay_variations, barangay_lower)
        THEN Lookup(predict_barangay_variations, barangay_lower)
        ELSE barangay_normalized

\* the object barangay_encoder.pkl holds: the LabelEncoder the training
\* fitted on the five barangays
EncoderOf(tag) == IF tag = "encoder" THEN LabelEncoder(BARANGAYS) ELSE NoEncoder

\* lines 644-650: one prepare_features call: the week and climate of f, the
\* barangay argument, and the name and code the call resolves it to
PrepareFeaturesCall(f, barangay, encoder) ==
    LET barangay_normalized == prepare_features_barangay_normalized(barangay)
    IN  [week_start |-> f.week_start, climate |-> f.climate, barangay |-> barangay,
         barangay_normalized |-> barangay_normalized,
         barangay_encoded |-> encode_barangay(barangay_normalized, encoder)]

\* lines 568-612, the part of predict before the loop: the globals after the
\* lazy load_model() and the HTTP status the checks decide
Admit(request, g, d) ==
    LET lm == load_model(g, d)
        g1 == IF g.model = "None" THEN [lm.g EXCEPT !.model = lm.ret] ELSE g
    IN  [g |-> g1,
         status |-> IF g1.model = "None" THEN "http_503"
                    ELSE IF ~ClimateAccepted(request.climate) THEN "http_400"
                    ELSE IF ~DateParses(request.date) THEN "http_400"
                    ELSE "ok"]

\* a variant of WeekFeaturesIn without the clamp of lines 639-641
WeekFeaturesIn_unclamped(week_num, start_date, base_climate, historical) ==
    LET week_start == start_date + 7 * week_num
    IN  [week_start |-> week_start,
         climate |-> IF week_num = 0 THEN base_climate
                     ELSE get_historical_climate_for_date(week_start,
                              SomeClimate(base_climate), week_num, historical)]

\* a variant of WeekFeaturesIn that steps by days instead of weeks
WeekFeaturesIn_daily(week_num, start_date, base_climate, historical) ==
    LET week_start == start_date + week_num
    IN  [week_start |-> week_start,
         climate |-> ClampClimate(
            IF week_num = 0 THEN base_climate
            ELSE get_historical_climate_for_date(week_start,
                     SomeClimate(base_climate), week_num, historical))]

\* a variant of WeekFeaturesIn that estimates week 0 like the other weeks
WeekFeaturesIn_estimate_all(week_num, start_date, base_climate, historical) ==
    LET week_start == start_date + 7 * week_num
    IN  [week_start |-> week_start,
         climate |-> ClampClimate(
            get_historical_climate_for_date(week_start,
                SomeClimate(base_climate), week_num, historical))]

\* a variant of WeekFeaturesIn that hands the estimator the clamped base
WeekFeaturesIn_clamped_base(week_num, start_date, base_climate, historical) ==
    LET week_start == start_date + 7 * week_num
    IN  [week_start |-> week_start,
         climate |-> ClampClimate(
            IF week_num = 0 THEN base_climate
            ELSE get_historical_climate_for_date(week_start,
                     SomeClimate(ClampClimate(base_climate)), week_num, historical))]

\* lines 626-650 of one loop iteration: the week's start, its climate_data
\* after the clamp, which is what prepare_features is called with
WeekFeaturesIn(week_num, start_date, base_climate, historical) ==
    LET week_start == start_date + 7 * week_num
    IN  [week_start |-> week_start,
         climate |-> ClampClimate(
            IF week_num = 0 THEN base_climate
            ELSE get_historical_climate_for_date(week_start,
                     SomeClimate(base_climate), week_num, historical))]

\* the four iterations' prepare_features calls and week labels
LoopFeaturesIn(start_date, base_climate, historical) ==
    << WeekFeaturesIn(0, start_date, base_climate, historical),
       WeekFeaturesIn(1, start_date, base_climate, historical),
       WeekFeaturesIn(2, start_date, base_climate, historical),
       WeekFeaturesIn(3, start_date, base_climate, historical) >>

WeekLabels(fin) ==
    << format_week_range(fin[1].week_start), format_week_range(fin[2].week_start),
       format_week_range(fin[3].week_start), format_week_range(fin[4].week_start) >>

\* What the rest of one iteration meets: kind is "features_raise"
\* (prepare_features raises), "raise" (predict_proba raises), "malformed"
\* (it returns None, no row, or a row with fewer than two columns: the one
\* test of line 659) or "proba" (a row whose second column is p).
Outcome(kind, p) == [kind |-> kind, p |-> p]

\* a variant of WeekProbability without the range check of line 673
WeekProbability_unchecked(o) ==
    IF o.kind = "proba" THEN o.p ELSE 45000

\* lines 657-674: the outbreak probability of one week
WeekProbability(o) ==
    LET outbreak_prob == IF o.kind = "proba" THEN o.p ELSE 45000
    IN  IF ~(0 <= outbreak_prob /\ outbreak_prob <= PScale) THEN 45000
        ELSE outbreak_prob

\* a variant of WeekRecord whose fallback reports the week's climate_data
WeekRecord_estimate(week_num, week_str, climate_data, base_climate, o) ==
    LET probability == WeekProbability(o)
    IN  IF o.kind = "features_raise"
        THEN FallbackRecord(week_str, climate_data)
        ELSE WeekResult(week_str, get_risk_level(probability), Round4(probability),
                        ClimateUsed(climate_data,
                            IF week_num = 0 THEN "current" ELSE "historical_average"))

\* lines 652-710 of one loop iteration: the record appended
\* (week_str is format_week_range(week_start), climate_data the climate
\* prepare_features was called with)
WeekRecord(week_num, week_str, climate_data, base_climate, o) ==
    LET probability == WeekProbability(o)
    IN  IF o.kind = "features_raise"
        THEN FallbackRecord(week_str, base_climate)
        ELSE WeekResult(week_str, get_risk_level(probability), Round4(probability),
                        ClimateUsed(climate_data,
                            IF week_num = 0 THEN "current" ELSE "historical_average"))

\* a variant of FallbackForecast that reports the clamped climate
FallbackForecast_clamped(request) ==
    [i \in 1..4 |->
        FallbackRecord(format_week_range(strptime(request.date) + 7 * (i - 1)),
                       ClampClimate(request.climate))]

\* lines 735-755: the response of the outer except clause
FallbackForecast(request) ==
    [i \in 1..4 |->
        FallbackRecord(format_week_range(strptime(request.date) + 7 * (i - 1)),
                       request.climate)]

NoForecast == <<>>

Response(status, weekly_forecast) ==
    [status |-> status, weekly_forecast |-> weekly_forecast]

-----------------------------------------------------------------------------
(* The environment: files on disk and the requests sent *)

\* a decimal with two places: whole.hundredths
Dec(whole, hundredths) == whole * CScale + hundredths * (CScale \div 100)

Row(date, r, t, h) ==
    [date |-> date, rainfall |-> r, temperature |-> t, humidity |-> h]

\* a climate.csv: two readings in ISO week 2 and one in week 3 of January,
\* one in February, three out-of-range readings in March and one reading
\* whose date does not parse
ClimateRows ==
    << Row(DateStr(TRUE, 2024, 1, 8), Dec(120, 50), Dec(27, 30), Dec(80, 0)),
       Row(DateStr(TRUE, 2024, 1, 9), Dec(80, 25), Dec(28, 10), Dec(78, 0)),
       Row(DateStr(TRUE, 2024, 1, 17), Dec(0, 0), Dec(34, 90), Dec(99, 50)),
       Row(DateStr(TRUE, 2024, 2, 14), Dec(200, 0), Dec(26, 0), Dec(60, 0)),
       Row(DateStr(TRUE, 2024, 3, 5), Dec(600, 0), Dec(28, 0), Dec(70, 0)),
       Row(DateStr(TRUE, 2024, 3, 6), Dec(100, 0), Dec(36, 0), Dec(70, 0)),
       Row(DateStr(TRUE, 2024, 3, 7), Dec(100, 0), Dec(28, 0), Dec(39, 99)),
       Row(DateStr(FALSE, 0, 0, 0), Dec(100, 0), Dec(28, 0), Dec(70, 0)) >>

CsvFile(state, rows) == [state |-> state, rows |-> rows]

\* climate.csv is absent, holds the header only, or holds ClimateRows
ClimateFiles ==
    { CsvFile("missing", <<>>), CsvFile("ok", <<>>), CsvFile("ok", ClimateRows) }

\* The deployments explored: those in which at most one of the four files
\* is not a sound file.
Disks ==
    { d \in [model_file : {"missing", "corrupt", "clf"},
             feature_names_file : {"missing", "corrupt", "ok"},
             encoder_file : {"missing", "corrupt", "ok"},
             climate_csv : ClimateFiles] :
        Cardinality({f \in {"model_file", "feature_names_file", "encoder_file"} :
                        d[f] \notin {"clf", "ok"}})
        + (IF d.climate_csv = CsvFile("ok", ClimateRows) THEN 0 ELSE 1) <= 1 }

\* climates that pass the request validation, and climates that do not
AcceptedClimates ==
    { Climate(Dec(100, 0), Dec(28, 0), Dec(75, 0)),
      Climate(Dec(0, 0), Dec(10, 0), Dec(20, 0)),
      Climate(Dec(55, 56), Dec(50, 0), Dec(99, 97)) }

RejectedClimates ==
    { Climate(Dec(100, 0), Dec(50, 1), Dec(75, 0)),
      Climate(Dec(100, 0), Dec(28, 0), Dec(100, 1)),
      Climate(0 - Dec(0, 1), Dec(28, 0), Dec(75, 0)) }

Request(barangay, climate, date) ==
    [barangay |-> barangay, climate |-> climate, date |-> date]

\* other spellings of a location: "zone 2", "Zone2", " Zone II ", and a name
\* that is no barangay, "Atlantis"
LocationSpellings ==
    { <<"z", "o", "n", "e", " ", "2">>,
      <<"Z", "o", "n", "e", "2">>,
      <<" ", "Z", "o", "n", "e", " ", "I", "I", " ">>,
      <<"A", "t", "l", "a", "n", "t", "i", "s">> }

\* every climate and date for Santa Cruz, and the other spellings with the
\* climate (100.0, 28.0, 75.0) on 2025-01-06
Requests ==
    { Request(SantaCruz, c, dt) : c \in AcceptedClimates \cup RejectedClimates,
                                  dt \in GoodDates \cup BadDates }
    \cup { Request(b, Climate(Dec(100, 0), Dec(28, 0), Dec(75, 0)),
                   DateStr(TRUE, 2025, 1, 6)) : b \in LocationSpellings }

Outcomes ==
    { Outcome(k, 0) : k \in {"features_raise", "raise", "malformed"} }
    \cup { Outcome("proba", p) : p \in {29999, 60000, PScale + 1} }

Idle == Response("idle", NoForecast)

\* what a call met: the four weeks' outcomes (none when the loop did not run
\* or its records were discarded) and whether the response assembly raised
Met(outcomes, assemble_raise) ==
    [outcomes |-> outcomes, assemble_raise |-> assemble_raise]

NothingMet == Met(<<>>, FALSE)

\* Direct calls of the pure functions.  A call names the function and holds
\* its arguments (the fields the function does not take keep a fixed value).
Call(fn, probability, target_date, base_climate, week_offset, historical) ==
    [fn |-> fn, probability |-> probability, target_date |-> target_date,
     base_climate |-> base_climate, week_offset |-> week_offset,
     historical |-> historical]

NoCall == Call("none", 0, 1, NoClimate, 0, NoHistorical)

Return(done, risk, climate) == [done |-> done, risk |-> risk, climate |-> climate]

NoReturn == Return(FALSE, "", DefaultClimate)

\* probabilities by steps of 0.025, and the value 0.00001 under each step
ProbabilityInputs == {p \in 0..PScale : p % 2500 = 0 \/ p % 2500 = 2499}

MaxWeekOffset == 3

\* the baselines a process can hold: None, the one of a header-only
\* climate.csv, the one of ClimateRows
Baselines == {NoHistorical, ComputeBaseline(<<>>), ComputeBaseline(ClimateRows)}

\* target dates: in a week the baseline of ClimateRows has (2025-01-08: week 2,
\* 2025-02-12: week 7), in a month it has but not the week (2025-01-22,
\* 2025-02-26), in neither (2025-03-03, 2025-12-29)
TargetDates ==
    { ToOrdinal(2025, 1, 8), ToOrdinal(2025, 2, 12), ToOrdinal(2025, 1, 22),
      ToOrdinal(2025, 2, 26), ToOrdinal(2025, 3, 3), ToOrdinal(2025, 12, 29) }

BaseClimateArgs ==
    { NoClimate, SomeClimate(Climate(Dec(100, 0), Dec(28, 0), Dec(75, 0))),
      SomeClimate(Climate(Dec(55, 56), Dec(10, 0), Dec(99, 90))) }

Calls ==
    { Call("get_risk_level", p, 1, NoClimate, 0, NoHistorical) :
          p \in ProbabilityInputs }
    \cup { Call("get_historical_climate_for_date", 0, dt, b, k, h) :
              dt \in TargetDates, b \in BaseClimateArgs, k \in 0..MaxWeekOffset,
              h \in Baselines }

NoRequest == Request(<<>>, DefaultClimate, DateStr(FALSE, 0, 0, 0))

-----------------------------------------------------------------------------
(* The state machine *)

Init ==
    /\ phase = "boot"
    /\ disk \in Disks
    /\ model = "None"
    /\ barangay_encoder = "None"
    /\ historical_climate = NoHistorical
    /\ feature_names = "None"
    /\ req = NoRequest
    /\ resp = Idle
    /\ features_in = <<>>
    /\ met = NothingMet
    /\ call = NoCall
    /\ ret = NoReturn

SetGlobals(g) ==
    /\ model' = g.model
    /\ barangay_encoder' = g.barangay_encoder
    /\ historical_climate' = g.historical_climate
    /\ feature_names' = g.feature_names

\* lifespan (lines 24-38): load_model(), then load_historical_climate()
Startup ==
    /\ phase = "boot"
    /\ LET g1 == load_model(Globals, disk).g
       IN  SetGlobals([g1 EXCEPT !.historical_climate =
                          load_historical_climate(g1.historical_climate,
                                                  disk.climate_csv)])
    /\ phase' = "serving"
    /\ UNCHANGED <<disk, req, resp, features_in, met, call, ret>>

\* a variant of LookupBaseline that hands the estimator the cache as it was
\* before the call
LookupBaseline_before_load(hc, csv) == hc

\* line 156: historical = load_historical_climate(), what the estimator
\* looks its weeks up in
LookupBaseline(hc, csv) == load_historical_climate(hc, csv)

\* POST /predict (lines 560-755).  The request is rejected with an HTTP
\* error, or the loop runs over the four weeks; outcomes[i] is what week
\* i - 1 meets, and assemble_raise says that building the response after the
\* loop (lines 712-726) raises, which the outer except clause answers.
\* WeekOutcomes(calls) holds the outcomes the four prepare_features calls and
\* the classifier can have, MayRaise(calls) says whether the assembly can raise.
PredictWith(requests, WeekOutcomes(_), MayRaise(_)) ==
    /\ phase = "serving"
    /\ resp = Idle
    /\ \E request \in requests :
         \E a \in {Admit(request, Globals, disk)} :
             /\ req' = request
             /\ IF a.status # "ok"
                THEN /\ SetGlobals(a.g)
                     /\ resp' = Response(a.status, NoForecast)
                     /\ features_in' = <<>>
                     /\ met' = NothingMet
                ELSE \E historical \in {load_historical_climate(
                                            a.g.historical_climate, disk.climate_csv)} :
                     \E fin \in {LoopFeaturesIn(strptime(request.date),
                                      request.climate,
                                      LookupBaseline(a.g.historical_climate,
                                                     disk.climate_csv))} :
                     \E week_str \in {WeekLabels(fin)} :
                     \E barangay \in {predict_barangay_normalized(request.barangay)} :
                     \E calls \in {[i \in 1..4 |->
                                      PrepareFeaturesCall(fin[i], barangay,
                                          EncoderOf(a.g.barangay_encoder))]} :
                         /\ SetGlobals([a.g EXCEPT !.historical_climate = historical])
                         /\ features_in' = calls
                         /\ \/ \E outcomes \in WeekOutcomes(calls) :
                                 /\ met' = Met(outcomes, FALSE)
                                 /\ resp' = Response("ok",
                                      [i \in 1..4 |->
                                          WeekRecord(i - 1, week_str[i], fin[i].climate,
                                                     request.climate, outcomes[i])])
                            \/ /\ MayRaise(calls)
                               /\ met' = Met(<<>>, TRUE)
                               /\ resp' = Response("ok", FallbackForecast(request))
    /\ UNCHANGED <<phase, disk, call, ret>>

\* the handler when each week can meet any outcome of week_outcomes and the
\* assembly may raise
PredictOn(requests, week_outcomes) ==
    PredictWith(requests, LAMBDA calls : [1..4 -> week_outcomes], LAMBDA calls : TRUE)

Predict == PredictOn(Requests, Outcomes)

\* the transport layer sends the response; the handler can be called again
SendResponse ==
    /\ resp # Idle
    /\ resp' = Idle
    /\ req' = NoRequest
    /\ features_in' = <<>>
    /\ met' = NothingMet
    /\ UNCHANGED <<phase, disk, model, barangay_encoder, historical_climate,
                   feature_names, call, ret>>

Next == Startup \/ Predict \/ SendResponse

Spec == Init /\ [][Next]_vars

-----------------------------------------------------------------------------
(* The service with all the operations that touch the shared globals *)

\* a variant of HealthGlobals that loads the classifier on every call
HealthGlobals_reload(g, d) == load_model([g EXCEPT !.model = "None"], d).g

\* lines 527-528 of health_check: load_model() when model is None, its
\* return value dropped
HealthGlobals(g, d) == IF g.model = "None" THEN load_model(g, d).g ELSE g

\* GET /health (lines 523-535)
HealthCheck ==
    /\ phase = "serving"
    /\ resp = Idle
    /\ SetGlobals(HealthGlobals(Globals, disk))
    /\ resp' = Response("health_200", NoForecast)
    /\ UNCHANGED <<phase, disk, req, features_in, met, call, ret>>

\* POST /upload/climate (lines 969-1001): the upload is saved as
\* backend/data/climate_<timestamp>.csv, a file no operation reads, or the
\* handler answers 500; climate.csv and the globals are left alone
UploadClimate ==
    /\ phase = "serving"
    /\ resp = Idle
    /\ \E status \in {"upload_200", "upload_500"} :
          resp' = Response(status, NoForecast)
    /\ UNCHANGED <<phase, disk, model, barangay_encoder, historical_climate,
                   feature_names, req, features_in, met, call, ret>>

\* One run of retrain_model.py on disk d (retrain_model.py lines 396-405 and
\* 429-485): it exits 1 when climate.csv is missing or the training fails,
\* before any dump or after the dump of the classifier; it exits 0 after it
\* dumped the classifier and the feature names, and the encoder when the
\* training frame has a barangay column.
RetrainRuns(d) ==
    IF d.climate_csv.state = "missing"
    THEN { [ok |-> FALSE, disk |-> d] }
    ELSE { [ok |-> FALSE, disk |-> d],
           [ok |-> FALSE, disk |-> [d EXCEPT !.model_file = "retrained"]],
           [ok |-> TRUE, disk |-> [d EXCEPT !.model_file = "retrained",
                                            !.feature_names_file = "ok"]],
           [ok |-> TRUE, disk |-> [d EXCEPT !.model_file = "retrained",
                                            !.feature_names_file = "ok",
                                            !.encoder_file = "ok"]] }

\* lines 1306-1310 of retrain_model: model = None; model = load_model()
ReloadGlobals(g, d) ==
    LET lm == load_model([g EXCEPT !.model = "None"], d)
    IN  [lm.g EXCEPT !.model = lm.ret]

\* POST /model/retrain (lines 1279-1319)
Retrain ==
    /\ phase = "serving"
    /\ resp = Idle
    /\ \E run \in RetrainRuns(disk) :
          /\ disk' = run.disk
          /\ IF run.ok
             THEN /\ SetGlobals(ReloadGlobals(Globals, run.disk))
                  /\ resp' = Response("retrain_200", NoForecast)
             ELSE /\ UNCHANGED <<model, barangay_encoder, historical_climate,
                                 feature_names>>
                  /\ resp' = Response("retrain_500", NoForecast)
    /\ UNCHANGED <<phase, req, features_in, met, call, ret>>

\* climate.csv is replaced on disk by whoever maintains the data
ClimateCsvReplaced ==
    /\ \E csv \in ClimateFiles \ {disk.climate_csv} :
          disk' = [disk EXCEPT !.climate_csv = csv]
    /\ UNCHANGED <<phase, model, barangay_encoder, historical_climate,
                   feature_names, req, resp, features_in, met, call, ret>>

\* the process is stopped and started again (lines 1322-1324): the globals
\* are those of a fresh module
Restart ==
    /\ phase = "serving"
    /\ phase' = "boot"
    /\ model' = "None"
    /\ barangay_encoder' = "None"
    /\ historical_climate' = NoHistorical
    /\ feature_names' = "None"
    /\ req' = NoRequest
    /\ resp' = Idle
    /\ features_in' = <<>>
    /\ met' = NothingMet
    /\ UNCHANGED <<disk, call, ret>>

\* the requests and week outcomes of the service runs: the scenario request
\* and a request with a rejected humidity; a week's classifier call raises or
\* returns 0.6
ServiceRequests ==
    { Request(SantaCruz, Climate(Dec(100, 0), Dec(28, 0), Dec(75, 0)),
              DateStr(TRUE, 2025, 1, 6)),
      Request(SantaCruz, Climate(Dec(100, 0), Dec(28, 0), Dec(100, 1)),
              DateStr(TRUE, 2025, 1, 6)) }

ServiceOutcomes == { Outcome("raise", 0), Outcome("proba", 60000) }

ServicePredict == PredictOn(ServiceRequests, ServiceOutcomes)

ServiceNext ==
    \/ Startup
    \/ ServicePredict
    \/ SendResponse
    \/ HealthCheck
    \/ UploadClimate
    \/ Retrain
    \/ ClimateCsvReplaced
    \/ Restart

ServiceSpec == Init /\ [][ServiceNext]_vars

-----------------------------------------------------------------------------
(* The same forecast asked for again.  The classifier and the serialization
   of the response are deterministic: what a week meets is a function of the
   prepare_features call, fixed for the run. *)

\* What prepare_features and predict_proba make of one call f, for the
\* classifier of the run: "steady" returns 0.6 for every row; "varying"
\* raises on a temperature of 35.0, returns a malformed array on a rainfall
\* of 0.0, cannot build the row of a week starting in February, and
\* otherwise returns humidity / 100.
ClassifierOutcome(clf, f) ==
    IF clf = "steady" THEN Outcome("proba", 60000)
    ELSE IF MonthOf(f.week_start) = 2 THEN Outcome("features_raise", 0)
    ELSE IF f.climate.temperature = Dec(35, 0) THEN Outcome("raise", 0)
    ELSE IF f.climate.rainfall = 0 THEN Outcome("malformed", 0)
    ELSE Outcome("proba", f.climate.humidity \div 10)

\* the run's classifier and whether the response assembly raises in it
Behaviour(clf, assemble_raise) == [clf |-> clf, assemble_raise |-> assemble_raise]

Behaviours ==
    { Behaviour("steady", FALSE), Behaviour("varying", FALSE),
      Behaviour("varying", TRUE) }

\* the last call answered: its request, its response, and the globals and
\* files it left
Previous(answered, request, response, g, d) ==
    [answered |-> answered, req |-> request, resp |-> response, globals |-> g,
     disk |-> d]

RepeatRequests ==
    { Request(SantaCruz, Climate(Dec(100, 0), Dec(28, 0), Dec(75, 0)),
              DateStr(TRUE, 2025, 1, 6)),
      Request(SantaCruz, Climate(Dec(0, 0), Dec(10, 0), Dec(20, 0)),
              DateStr(TRUE, 2025, 1, 6)),
      Request(SantaCruz, Climate(Dec(55, 56), Dec(50, 0), Dec(99, 97)),
              DateStr(TRUE, 2025, 2, 24)),
      Request(SantaCruz, Climate(Dec(100, 0), Dec(28, 0), Dec(100, 1)),
              DateStr(TRUE, 2025, 1, 6)) }

RepeatInit ==
    /\ phase = "boot"
    /\ disk \in { d \in Disks : d.feature_names_file = "ok" /\ d.encoder_file = "ok" }
    /\ model = "None"
    /\ barangay_encoder = "None"
    /\ historical_climate = NoHistorical
    /\ feature_names = "None"
    /\ req = NoRequest
    /\ resp = Idle
    /\ features_in = <<>>
    /\ met = NothingMet
    /\ call \in Behaviours
    /\ ret = Previous(FALSE, NoRequest, Idle, Globals, disk)

RepeatPredict ==
    PredictWith(RepeatRequests,
        LAMBDA calls : IF call.assemble_raise THEN {}
                       ELSE {[i \in 1..4 |-> ClassifierOutcome(call.clf, calls[i])]},
        LAMBDA calls : call.assemble_raise)

\* the response is sent, and remembered for the comparison with the next one
RepeatSend ==
    /\ resp # Idle
    /\ ret' = Previous(TRUE, req, resp, Globals, disk)
    /\ resp' = Idle
    /\ req' = NoRequest
    /\ features_in' = <<>>
    /\ met' = NothingMet
    /\ UNCHANGED <<phase, disk, model, barangay_encoder, historical_climate,
                   feature_names, call>>

RepeatNext ==
    \/ Startup
    \/ RepeatPredict
    \/ RepeatSend
    \/ ClimateCsvReplaced
    \/ Restart

RepeatSpec == RepeatInit /\ [][RepeatNext]_vars

-----------------------------------------------------------------------------
(* The batch endpoints.  predict_batch starts one process_single task per
   request and gathers them; the tasks are let complete in any order.
   predict_all_barangays calls predict for the five barangays in turn. *)

\* the classifier of these runs
BatchClassifier == "varying"

\* lines 626-710: the records of the four weeks, from the four
\* prepare_features inputs fin, the normalized location and the encoder
LoopRecords(request, fin, barangay, encoder) ==
    [i \in 1..4 |->
        WeekRecord(i - 1, WeekLabels(fin)[i], fin[i].climate, request.climate,
            ClassifierOutcome(BatchClassifier,
                PrepareFeaturesCall(fin[i], barangay, encoder)))]

\* lines 584-726 for an admitted request: g holds the globals after the
\* checks
PredictLoop(request, g, d) ==
    [g |-> [g EXCEPT !.historical_climate =
                load_historical_climate(g.historical_climate, d.climate_csv)],
     status |-> "ok",
     weekly_forecast |->
         LoopRecords(request,
             LoopFeaturesIn(strptime(request.date), request.climate,
                 LookupBaseline(g.historical_climate, d.climate_csv)),
             predict_barangay_normalized(request.barangay),
             EncoderOf(g.barangay_encoder))]

\* what the handler does with the outcome a of its checks
PredictAdmitted(request, a, d) ==
    IF a.status # "ok"
    THEN [g |-> a.g, status |-> a.status, weekly_forecast |-> NoForecast]
    ELSE PredictLoop(request, a.g, d)

\* predict (lines 560-726) as a function: the globals afterwards, the HTTP
\* status and the records, when the response assembly does not raise
predict(request, g, d) == PredictAdmitted(request, Admit(request, g, d), d)

\* one element of "results" (lines 771-782): kind is "forecast" or "error";
\* "pending" marks a task that has not completed
BatchEntry(barangay, date, kind, forecast) ==
    [barangay |-> barangay, date |-> date, kind |-> kind, forecast |-> forecast]

Pending == BatchEntry(<<>>, DateStr(FALSE, 0, 0, 0), "pending", NoForecast)

\* lines 768-782: process_single, given what its predict call answered
process_single(request, response) ==
    IF response.status = "ok"
    THEN BatchEntry(request.barangay, request.date, "forecast",
                    response.weekly_forecast)
    ELSE BatchEntry(request.barangay, request.date, "error", NoForecast)

\* a variant of gather that lists the results in the order of completion
gather_as_completed(entries, order) == [i \in DOMAIN order |-> entries[order[i]]]

\* line 786: asyncio.gather(*tasks) lists the results in the order of the
\* tasks, whatever the order they completed in
gather(entries, order) == [i \in DOMAIN order |-> entries[i]]

\* one value of "predictions" (lines 836-864): the forecast of the barangay,
\* or the fallback forecast when its predict call raised
BarangayEntry(barangay, kind, weekly_forecast) ==
    [barangay |-> barangay, kind |-> kind, weekly_forecast |-> weekly_forecast]

\* lines 834-864: one iteration of the loop of predict_all_barangays, given
\* what its predict call answered
BarangayResult(request, response) ==
    IF response.status = "ok"
    THEN BarangayEntry(request.barangay, "forecast", response.weekly_forecast)
    ELSE BarangayEntry(request.barangay, "fallback", FallbackForecast(request))

\* the requests of a batch: two valid ones, one with a rejected humidity,
\* one with a date that does not parse
BatchRequests ==
    { Request(SantaCruz, Climate(Dec(100, 0), Dec(28, 0), Dec(75, 0)),
              DateStr(TRUE, 2025, 1, 6)),
      Request(ZoneII, Climate(Dec(0, 0), Dec(10, 0), Dec(20, 0)),
              DateStr(TRUE, 2025, 2, 24)),
      Request(Morales, Climate(Dec(100, 0), Dec(28, 0), Dec(100, 1)),
              DateStr(TRUE, 2025, 1, 6)),
      Request(StoNino, Climate(Dec(100, 0), Dec(28, 0), Dec(75, 0)),
              DateStr(TRUE, 2025, 2, 30)) }

MaxBatch == 3

\* the lists of at most MaxBatch requests
Batches ==
    UNION { [1..n -> BatchRequests] : n \in 0..MaxBatch }

\* the bodies of POST /predict/all-barangays: climate and date are optional
AllBarangaysBodies ==
    { [climate |-> c, date |-> dt] :
        c \in { NoClimate, SomeClimate(Climate(Dec(100, 0), Dec(28, 0), Dec(75, 0))),
                SomeClimate(Climate(Dec(100, 0), Dec(28, 0), Dec(100, 1))) },
        dt \in { [given |-> FALSE, s |-> DateStr(FALSE, 0, 0, 0)],
                 [given |-> TRUE, s |-> DateStr(TRUE, 2025, 1, 6)],
                 [given |-> TRUE, s |-> DateStr(TRUE, 2025, 2, 30)] } }

\* datetime.now() of these runs
Today == DateStr(TRUE, 2025, 1, 8)

\* the endpoint call in flight: its name and the requests it forecasts
BatchCall(fn, requests) == [fn |-> fn, requests |-> requests]

NoBatch == BatchCall("none", <<>>)

\* the tasks' results so far and the order in which they completed
Gathered(entries, order) == [entries |-> entries, order |-> order]

BatchInit ==
    /\ phase = "boot"
    /\ disk \in { d \in Disks : d.feature_names_file = "ok" /\ d.encoder_file = "ok" }
    /\ model = "None"
    /\ barangay_encoder = "None"
    /\ historical_climate = NoHistorical
    /\ feature_names = "None"
    /\ req = NoRequest
    /\ resp = Idle
    /\ features_in = <<>>
    /\ met = NothingMet
    /\ call = NoBatch
    /\ ret = Gathered(<<>>, <<>>)

\* lines 760-764 and 801-805: the lazy load of the classifier
BatchGlobals(g, d) ==
    IF g.model = "None" THEN [load_model(g, d).g EXCEPT !.model = load_model(g, d).ret]
    ELSE g

\* lines 758-785: the classifier check, then one task per request
BatchStart ==
    /\ phase = "serving"
    /\ resp = Idle
    /\ call = NoBatch
    /\ \E requests \in Batches :
       \E g \in {BatchGlobals(Globals, disk)} :
          /\ SetGlobals(g)
          /\ IF g.model = "None"
             THEN /\ resp' = Response("http_503", NoForecast)
                  /\ UNCHANGED <<call, ret>>
             ELSE /\ call' = BatchCall("predict_batch", requests)
                  /\ ret' = Gathered([i \in DOMAIN requests |-> Pending], <<>>)
                  /\ UNCHANGED resp
    /\ UNCHANGED <<phase, disk, req, features_in, met>>

\* the task of request i runs process_single to its end
BatchTask(i) ==
    /\ call.fn = "predict_batch"
    /\ i \in DOMAIN call.requests
    /\ ret.entries[i] = Pending
    /\ \E response \in {predict(call.requests[i], Globals, disk)} :
          /\ SetGlobals(response.g)
          /\ ret' = Gathered([ret.entries EXCEPT ![i] =
                                  process_single(call.requests[i], response)],
                             Append(ret.order, i))
    /\ UNCHANGED <<phase, disk, req, resp, features_in, met, call>>

\* lines 786-788: every task has completed, the results are returned
BatchGather ==
    /\ call.fn = "predict_batch"
    /\ resp = Idle
    /\ Len(ret.order) = Len(call.requests)
    /\ resp' = Response("batch_200", gather(ret.entries, ret.order))
    /\ UNCHANGED <<phase, disk, model, barangay_encoder, historical_climate,
                   feature_names, req, features_in, met, call, ret>>

\* lines 807-829: the climate and the date of the five requests; without a
\* climate the estimate for today, without a date today
AllBarangaysRequests(body, g, d) ==
    LET historical == get_historical_climate_for_date(strptime(Today), NoClimate, 0,
                          LookupBaseline(g.historical_climate, d.climate_csv))
        climate_data == IF body.climate.given THEN body.climate.c ELSE historical
        date_str == IF body.date.given THEN body.date.s ELSE Today
    IN  [i \in DOMAIN BARANGAYS |-> Request(BARANGAYS[i], climate_data, date_str)]

\* lines 795-831: the classifier check, then the list of requests
AllBarangaysStart ==
    /\ phase = "serving"
    /\ resp = Idle
    /\ call = NoBatch
    /\ \E body \in AllBarangaysBodies :
       \E g \in {BatchGlobals(Globals, disk)} :
          IF g.model = "None"
          THEN /\ SetGlobals(g)
               /\ resp' = Response("http_503", NoForecast)
               /\ UNCHANGED <<call, ret>>
          ELSE /\ SetGlobals(IF body.climate.given THEN g
                             ELSE [g EXCEPT !.historical_climate =
                                      load_historical_climate(g.historical_climate,
                                                              disk.climate_csv)])
               /\ call' = BatchCall("predict_all_barangays",
                                    AllBarangaysRequests(body, g, disk))
               /\ ret' = Gathered(<<>>, <<>>)
               /\ UNCHANGED resp
    /\ UNCHANGED <<phase, disk, req, features_in, met>>

\* lines 834-864: the next barangay of the loop; the fallback of a rejected
\* request parses the date again, and a date that does not parse ends the
\* call with an internal error
AllBarangaysStep ==
    /\ call.fn = "predict_all_barangays"
    /\ resp = Idle
    /\ Len(ret.entries) < Len(call.requests)
    /\ \E request \in {call.requests[Len(ret.entries) + 1]} :
       \E response \in {predict(request, Globals, disk)} :
          /\ SetGlobals(response.g)
          /\ IF response.status # "ok" /\ ~DateParses(request.date)
             THEN /\ resp' = Response("http_500", NoForecast)
                  /\ UNCHANGED ret
             ELSE /\ ret' = Gathered(Append(ret.entries,
                                          BarangayResult(request, response)),
                                     Append(ret.order, Len(ret.entries) + 1))
                  /\ UNCHANGED resp
    /\ UNCHANGED <<phase, disk, req, features_in, met, call>>

\* line 866: {"predictions": results}, a dict keyed by the barangay
AllBarangaysReturn ==
    /\ call.fn = "predict_all_barangays"
    /\ resp = Idle
    /\ Len(ret.entries) = Len(call.requests)
    /\ resp' = Response("all_200",
                   [b \in {ret.entries[i].barangay : i \in DOMAIN ret.entries} |->
                       ret.entries[CHOOSE i \in DOMAIN ret.entries :
                                      /\ ret.entries[i].barangay = b
                                      /\ \A j \in DOMAIN ret.entries :
                                            ret.entries[j].barangay = b => j <= i]])
    /\ UNCHANGED <<phase, disk, model, barangay_encoder, historical_climate,
                   feature_names, req, features_in, met, call, ret>>

\* the response is sent
BatchSend ==
    /\ resp # Idle
    /\ resp' = Idle
    /\ call' = NoBatch
    /\ ret' = Gathered(<<>>, <<>>)
    /\ UNCHANGED <<phase, disk, model, barangay_encoder, historical_climate,
                   feature_names, req, features_in, met>>

BatchNext ==
    \/ Startup
    \/ BatchStart
    \/ \E i \in 1..MaxBatch : BatchTask(i)
    \/ BatchGather
    \/ AllBarangaysStart
    \/ AllBarangaysStep
    \/ AllBarangaysReturn
    \/ BatchSend

BatchSpec == BatchInit /\ [][BatchNext]_vars

-----------------------------------------------------------------------------
(* The pure functions called directly *)

UnitInit ==
    /\ phase = "unit"
    /\ disk = [model_file |-> "missing", feature_names_file |-> "missing",
               encoder_file |-> "missing", climate_csv |-> CsvFile("missing", <<>>)]
    /\ model = "None"
    /\ barangay_encoder = "None"
    /\ historical_climate = NoHistorical
    /\ feature_names = "None"
    /\ req = NoRequest
    /\ resp = Idle
    /\ features_in = <<>>
    /\ met = NothingMet
    /\ call \in Calls
    /\ ret = NoReturn

UnitFrame ==
    UNCHANGED <<phase, disk, model, barangay_encoder, historical_climate,
                feature_names, req, resp, features_in, met, call>>

CallRiskLevel ==
    /\ call.fn = "get_risk_level"
    /\ ~ret.done
    /\ ret' = Return(TRUE, get_risk_level(call.probability), DefaultClimate)
    /\ UnitFrame

CallHistoricalClimate ==
    /\ call.fn = "get_historical_climate_for_date"
    /\ ~ret.done
    /\ ret' = Return(TRUE, "",
                     get_historical_climate_for_date(call.target_date,
                         call.base_climate, call.week_offset, call.historical))
    /\ UnitFrame

UnitNext == CallRiskLevel \/ CallHistoricalClimate

UnitSpec == UnitInit /\ [][UnitNext]_vars

-----------------------------------------------------------------------------
(* prepare_features called directly *)

\* list(X.columns) as retrain_model.py dumps it (lines 218-225, 401): the
\* numeric columns of the training frame without label and cases
TrainedFeatureNames ==
    << "rainfall", "temperature", "humidity", "prev_month_cases",
       "rolling_3mo_avg_cases", "barangay_encoded", "month", "quarter",
       "day_of_year", "month_sin", "month_cos", "day_of_year_sin",
       "day_of_year_cos", "temp_rainfall_interaction", "temp_humidity_interaction",
       "rainfall_humidity_interaction", "temp_rainfall_humidity_interaction",
       "rainfall_squared", "temperature_squared", "humidity_squared",
       "rainfall_sqrt", "temperature_sqrt", "rainfall_temp_ratio",
       "humidity_temp_ratio", "rainfall_humidity_ratio", "mosquito_breeding_index",
       "dengue_risk_index", "is_rainy_season", "is_dry_season", "is_peak_season",
       "temp_optimal", "temp_high", "temp_low", "humidity_optimal", "humidity_high",
       "humidity_low", "rainfall_high", "rainfall_moderate", "rainfall_low",
       "high_risk_combination" >>

\* the default list of load_model (line 239)
DefaultFeatureNames == << "rainfall", "temperature", "humidity" >>

\* the values of feature_names: None, the trained list, the default list,
\* and a short list in another order with a column of the enhanced training
FeatureNameLists ==
    { NoFeatureNames, FeatureNames(TrainedFeatureNames),
      FeatureNames(DefaultFeatureNames),
      FeatureNames(<< "week_of_year", "quarter", "humidity", "barangay_encoded",
                      "prev_month_cases" >>) }

\* the values of barangay_encoder: None, an encoder fitted on the five
\* barangays, an encoder fitted on data of two of them
Encoders ==
    { NoEncoder, LabelEncoder(BARANGAYS), LabelEncoder(<< Morales, SantaCruz >>) }

\* location strings: "zone 2", "Zone2", " Zone II ", "Zone II", "STO. NI~NO" and
\* a tab, "Santa Cruz", "Atlantis", "zone  2" (two spaces), "  "
LocationInputs ==
    { <<"z", "o", "n", "e", " ", "2">>,
      <<"Z", "o", "n", "e", "2">>,
      <<" ", "Z", "o", "n", "e", " ", "I", "I", " ">>,
      ZoneII,
      <<"S", "T", "O", ".", " ", "N", "I", "~N", "O", "\t">>,
      SantaCruz,
      <<"A", "t", "l", "a", "n", "t", "i", "s">>,
      <<"z", "o", "n", "e", " ", " ", "2">>,
      <<" ", " ">> }

\* dates around the quarter boundaries, in a common and a leap year
FeatureDates ==
    { ToOrdinal(2025, 1, 6), ToOrdinal(2025, 3, 31), ToOrdinal(2025, 4, 1),
      ToOrdinal(2024, 3, 31), ToOrdinal(2025, 9, 30), ToOrdinal(2025, 12, 31) }

FeatureClimates ==
    { Climate(Dec(100, 0), Dec(28, 0), Dec(75, 0)),
      Climate(Dec(0, 0), Dec(20, 0), Dec(40, 0)),
      Climate(Dec(101, 50), Dec(30, 50), Dec(80, 50)) }

\* a call of prepare_features: its arguments and the two globals it reads
FeatureCall(climate, barangay, date, encoder, names) ==
    [fn |-> "prepare_features", climate |-> climate, barangay |-> barangay,
     date |-> date, encoder |-> encoder, names |-> names]

FeatureReturn(done, features) == [done |-> done, features |-> features]

FeatureInit ==
    /\ phase = "features"
    /\ disk = [model_file |-> "missing", feature_names_file |-> "missing",
               encoder_file |-> "missing", climate_csv |-> CsvFile("missing", <<>>)]
    /\ model = "None"
    /\ barangay_encoder = "None"
    /\ historical_climate = NoHistorical
    /\ feature_names = "None"
    /\ req = NoRequest
    /\ resp = Idle
    /\ features_in = <<>>
    /\ met = NothingMet
    /\ call \in { FeatureCall(c, b, dt, e, n) :
                     c \in FeatureClimates, b \in LocationInputs, dt \in FeatureDates,
                     e \in Encoders, n \in FeatureNameLists }
    /\ ret = FeatureReturn(FALSE, <<>>)

CallPrepareFeatures ==
    /\ call.fn = "prepare_features"
    /\ ~ret.done
    /\ ret' = FeatureReturn(TRUE,
                  prepare_features(call.climate.rainfall, call.climate.temperature,
                                   call.climate.humidity, call.barangay, call.date,
                                   call.encoder, call.names))
    /\ UnitFrame

FeatureSpec == FeatureInit /\ [][CallPrepareFeatures]_vars

-----------------------------------------------------------------------------
(* The baseline cache filled by concurrent lookups.  Two tasks each call
   get_historical_climate_for_date; the steps of the load_historical_climate
   call inside it are interleaved freely. *)

\* readings on the bounds of the row filter, inside it and just outside it;
\* 2024-01-08, -09 and -10 lie in ISO week 2, 2024-01-17 in week 3
PoolRows ==
    << Row(DateStr(TRUE, 2024, 1, 8), Dec(0, 0), Dec(20, 0), Dec(40, 0)),
       Row(DateStr(TRUE, 2024, 1, 9), Dec(500, 0), Dec(35, 0), Dec(100, 0)),
       Row(DateStr(TRUE, 2024, 1, 17), Dec(120, 50), Dec(27, 30), Dec(80, 0)),
       Row(DateStr(TRUE, 2024, 1, 10), Dec(500, 1), Dec(28, 0), Dec(70, 0)),
       Row(DateStr(TRUE, 2024, 1, 10), 0 - Dec(0, 1), Dec(28, 0), Dec(70, 0)),
       Row(DateStr(TRUE, 2024, 1, 10), Dec(100, 0), Dec(19, 99), Dec(70, 0)),
       Row(DateStr(TRUE, 2024, 1, 10), Dec(100, 0), Dec(35, 1), Dec(70, 0)),
       Row(DateStr(TRUE, 2024, 1, 10), Dec(100, 0), Dec(28, 0), Dec(39, 99)),
       Row(DateStr(TRUE, 2024, 1, 10), Dec(100, 0), Dec(28, 0), Dec(100, 1)),
       Row(DateStr(FALSE, 0, 0, 0), Dec(100, 0), Dec(28, 0), Dec(70, 0)) >>

\* the climate.csv files of these runs: absent, not readable as a CSV, every
\* file of at most two rows of PoolRows, and ClimateRows
SourceFiles ==
    { CsvFile("missing", <<>>), CsvFile("unreadable", <<>>), CsvFile("ok", <<>>),
      CsvFile("ok", ClimateRows) }
    \cup { CsvFile("ok", << PoolRows[i] >>) : i \in DOMAIN PoolRows }
    \cup { CsvFile("ok", << PoolRows[i], PoolRows[j] >>) :
              i \in DOMAIN PoolRows, j \in DOMAIN PoolRows }

Tasks == 1..2

\* the arguments of one get_historical_climate_for_date call
LookupArgs(target_date, base_climate, week_offset) ==
    [target_date |-> target_date, base_climate |-> base_climate,
     week_offset |-> week_offset]

\* what the tasks look up: the first a date of ISO week 2, the second a date
\* of week 4 of January or a date in March
TaskArgs ==
    { << a, b >> :
        a \in { LookupArgs(ToOrdinal(2025, 1, 8), NoClimate, 0),
                LookupArgs(ToOrdinal(2025, 1, 8),
                    SomeClimate(Climate(Dec(55, 56), Dec(10, 0), Dec(99, 90))), 2) },
        b \in { LookupArgs(ToOrdinal(2025, 3, 3), NoClimate, 1),
                LookupArgs(ToOrdinal(2025, 1, 22),
                    SomeClimate(Climate(Dec(100, 0), Dec(28, 0), Dec(75, 0))), 3) } }

\* a task: where it stands, the dict it built (lines 109-135), what
\* load_historical_climate() returned to it and what its lookup returned
Task(pc, built, historical, climate) ==
    [pc |-> pc, built |-> built, historical |-> historical, climate |-> climate]

LoaderInit ==
    /\ phase = "lookups"
    /\ disk \in { [model_file |-> "missing", feature_names_file |-> "missing",
                   encoder_file |-> "missing", climate_csv |-> csv] :
                     csv \in SourceFiles }
    /\ model = "None"
    /\ barangay_encoder = "None"
    /\ historical_climate = NoHistorical
    /\ feature_names = "None"
    /\ req = NoRequest
    /\ resp = Idle
    /\ features_in = <<>>
    /\ met = NothingMet
    /\ call \in TaskArgs
    /\ ret = [t \in Tasks |-> Task("check", NoHistorical, NoHistorical, DefaultClimate)]

LoaderFrame ==
    UNCHANGED <<phase, disk, model, barangay_encoder, feature_names, req, resp,
                features_in, met, call>>

\* line 107: the test of the cache and of the file; line 148 when it fails
LoaderCheck(t) ==
    /\ ret[t].pc = "check"
    /\ IF historical_climate.isNone /\ disk.climate_csv.state # "missing"
       THEN ret' = [ret EXCEPT ![t].pc = "build"]
       ELSE ret' = [ret EXCEPT ![t].pc = "lookup",
                               ![t].historical = historical_climate]
    /\ UNCHANGED historical_climate
    /\ LoaderFrame

\* lines 109-135: the file is read and the two tables are built in locals;
\* lines 145-147: a read error returns None
LoaderBuild(t) ==
    /\ ret[t].pc = "build"
    /\ IF disk.climate_csv.state = "unreadable"
       THEN ret' = [ret EXCEPT ![t].pc = "lookup", ![t].historical = NoHistorical]
       ELSE ret' = [ret EXCEPT ![t].pc = "assign",
                               ![t].built = ComputeBaseline(disk.climate_csv.rows)]
    /\ UNCHANGED historical_climate
    /\ LoaderFrame

\* a variant of Published that publishes the weekly table before the
\* monthly one is in place
Published_weekly_first(built) == [built EXCEPT !.monthly = <<>>]

\* lines 136-139: the global is bound to the finished dict in one assignment
Published(built) == built

LoaderAssign(t) ==
    /\ ret[t].pc = "assign"
    /\ historical_climate' = Published(ret[t].built)
    /\ ret' = [ret EXCEPT ![t].pc = "return"]
    /\ LoaderFrame

\* line 144: return historical_climate
LoaderReturn(t) ==
    /\ ret[t].pc = "return"
    /\ ret' = [ret EXCEPT ![t].pc = "lookup", ![t].historical = historical_climate]
    /\ UNCHANGED historical_climate
    /\ LoaderFrame

\* lines 158-217: the lookup in what load_historical_climate() returned
LoaderLookup(t) ==
    /\ ret[t].pc = "lookup"
    /\ ret' = [ret EXCEPT ![t].pc = "done",
                          ![t].climate =
                              get_historical_climate_for_date(call[t].target_date,
                                  call[t].base_climate, call[t].week_offset,
                                  ret[t].historical)]
    /\ UNCHANGED historical_climate
    /\ LoaderFrame

LoaderNext ==
    \E t \in Tasks :
        \/ LoaderCheck(t)
        \/ LoaderBuild(t)
        \/ LoaderAssign(t)
        \/ LoaderReturn(t)
        \/ LoaderLookup(t)

LoaderSpec == LoaderInit /\ [][LoaderNext]_vars

-----------------------------------------------------------------------------
(* Properties *)

\* the call in flight was answered with a forecast built by the loop
LoopAnswered == resp.status = "ok" /\ ~met.assemble_raise

\* the request in flight passes the climate and date checks of predict
RequestValid == ClimateAccepted(req.climate) /\ DateParses(req.date)

Weeks == 1..4

\* the source tag the loop gives week number i - 1
LoopSource(i) == IF i = 1 THEN "current" ELSE "historical_average"

\* c as a reported climate_used entry holding exactly the values of c
Verbatim(c, source) ==
    [rainfall |-> c.rainfall, temperature |-> c.temperature,
     humidity |-> c.humidity, source |-> source]

\* a classifier outcome the loop answers with the 0.45 substitute
PredictionFailed(o) ==
    \/ o.kind \in {"raise", "malformed"}
    \/ o.kind = "proba" /\ (o.p < 0 \/ o.p > PScale)

T_C2 ==
    (resp # Idle /\ model # "None" /\ RequestValid) =>
        /\ resp.status = "ok"
        /\ Len(resp.weekly_forecast) = 4
        /\ \A i \in Weeks :
              resp.weekly_forecast[i].week =
                  format_week_range(strptime(req.date) + 7 * (i - 1))

W_C2 ==
    /\ LoopAnswered
    /\ met.outcomes[2].kind = "features_raise"
    /\ met.outcomes[3].kind = "raise"
    /\ Len(resp.weekly_forecast) = 4

\* C3 as stated: week 0 of an accepted request is built from and reports the
\* caller's base climate verbatim, with provenance "current".
CE_C3 ==
    (resp.status = "ok") =>
        /\ features_in[1].climate = req.climate
        /\ resp.weekly_forecast[1].climate_used = Verbatim(req.climate, "current")

\* C3 amended: when neither week 0's processing nor the response assembly
\* raises, week 0 is built from the base climate clamped to rainfall >= 0,
\* 20 <= temperature <= 35, 40 <= humidity <= 100, and reports that climate
\* rounded to one decimal with provenance "current"; a base climate inside
\* these ranges is used verbatim.
T_C3 ==
    (LoopAnswered /\ met.outcomes[1].kind # "features_raise") =>
        LET b == req.climate
            used == features_in[1].climate
            InRange == /\ b.rainfall >= 0
                       /\ 20 * CScale <= b.temperature /\ b.temperature <= 35 * CScale
                       /\ 40 * CScale <= b.humidity /\ b.humidity <= 100 * CScale
        IN  /\ used.rainfall = (IF b.rainfall < 0 THEN 0 ELSE b.rainfall)
            /\ used.temperature = (IF b.temperature < 20 * CScale THEN 20 * CScale
                                   ELSE IF b.temperature > 35 * CScale THEN 35 * CScale
                                   ELSE b.temperature)
            /\ used.humidity = (IF b.humidity < 40 * CScale THEN 40 * CScale
                                ELSE IF b.humidity > 100 * CScale THEN 100 * CScale
                                ELSE b.humidity)
            /\ InRange => used = b
            /\ resp.weekly_forecast[1].climate_used =
                   [rainfall |-> Round1(used.rainfall),
                    temperature |-> Round1(used.temperature),
                    humidity |-> Round1(used.humidity), source |-> "current"]

W_C3 ==
    /\ LoopAnswered /\ met.outcomes[1].kind = "proba"
    /\ req.climate.temperature = Dec(10, 0)
    /\ resp.weekly_forecast[1].climate_used.temperature = Dec(20, 0)

\* a record is the fallback record for climate c as reported
IsFallbackRecord(rec, cu) ==
    /\ rec.risk = "Moderate"
    /\ rec.probability = 45000
    /\ rec.outbreak_probability = 45000
    /\ rec.climate_used = cu

\* the orchestration of the call in flight raised: the request passed the
\* classifier and climate checks, and then its date did not parse or the
\* response assembly raised
OrchestrationRaised ==
    /\ resp # Idle /\ model # "None" /\ ClimateAccepted(req.climate)
    /\ (~DateParses(req.date) \/ met.assemble_raise)

\* C4 as stated: when the orchestration raises, an unparseable date included,
\* predict returns 4 fallback records carrying the base climate.
CE_C4 ==
    OrchestrationRaised =>
        /\ resp.status = "ok"
        /\ Len(resp.weekly_forecast) = 4
        /\ \A i \in Weeks :
              IsFallbackRecord(resp.weekly_forecast[i], Verbatim(req.climate, "fallback"))

\* C4 amended: when the orchestration raises anything but an HTTP rejection,
\* predict returns 4 fallback records (Moderate, 0.45, "fallback") carrying
\* the base climate rounded to one decimal; an unparseable date is an HTTP
\* rejection: it is answered with status 400 and no forecast.
T_C4 ==
    /\ met.assemble_raise =>
          /\ resp.status = "ok"
          /\ Len(resp.weekly_forecast) = 4
          /\ \A i \in Weeks :
                IsFallbackRecord(resp.weekly_forecast[i],
                    [rainfall |-> Round1(req.climate.rainfall),
                     temperature |-> Round1(req.climate.temperature),
                     humidity |-> Round1(req.climate.humidity),
                     source |-> "fallback"])
    /\ (OrchestrationRaised /\ ~DateParses(req.date)) =>
          /\ resp.status = "http_400"
          /\ resp.weekly_forecast = NoForecast

W_C4 ==
    /\ met.assemble_raise /\ resp.status = "ok"
    /\ req.climate.temperature = Dec(10, 0)

\* C5 as stated: with no classifier or no baseline, a valid forecast request
\* is still answered with a forecast, not an error.
CE_C5 ==
    (resp # Idle /\ RequestValid /\ (model = "None" \/ historical_climate.isNone)) =>
        /\ resp.status = "ok"
        /\ Len(resp.weekly_forecast) = 4

\* C5 amended: with a classifier and no baseline, a valid request is still
\* answered with a 4-week forecast, weeks 1-3 built from the caller's base
\* climate with the no-baseline drift (2% rainfall, 0.1 degree, 0.5 humidity
\* per week) and clamped; when no classifier can be loaded the request is
\* rejected with status 503 and no forecast.
T_C5 ==
    /\ (resp # Idle /\ model = "None") =>
          /\ resp.status = "http_503"
          /\ resp.weekly_forecast = NoForecast
    /\ (resp # Idle /\ model # "None" /\ RequestValid /\ historical_climate.isNone) =>
          /\ resp.status = "ok"
          /\ Len(resp.weekly_forecast) = 4
          /\ \A i \in 2..4 :
                LET k == i - 1
                    b == req.climate
                IN  features_in[i].climate =
                        Climate(Max(0, (b.rainfall * (100 + 2 * k)) \div 100),
                                Max(20 * CScale, Min(35 * CScale, b.temperature + 1000 * k)),
                                Max(40 * CScale, Min(100 * CScale, b.humidity + 5000 * k)))

W_C5 ==
    /\ LoopAnswered /\ historical_climate.isNone
    /\ features_in[4].climate = Climate(Dec(106, 0), Dec(28, 30), Dec(76, 50))

\* C6: when a week's classifier call raises, returns nothing, returns fewer
\* than two class probabilities or an outbreak probability outside [0, 1],
\* that week's record has probability 0.45 and risk Moderate and keeps the
\* week's climate and provenance; the batch still has 4 records and every
\* other week whose classifier call succeeded reports its own probability.
T_C6 ==
    LoopAnswered =>
        /\ Len(resp.weekly_forecast) = 4
        /\ \A i \in Weeks :
              LET o == met.outcomes[i]
                  rec == resp.weekly_forecast[i]
              IN  /\ PredictionFailed(o) =>
                        /\ rec.probability = 45000
                        /\ rec.outbreak_probability = 45000
                        /\ rec.risk = "Moderate"
                        /\ rec.climate_used =
                               [rainfall |-> Round1(features_in[i].climate.rainfall),
                                temperature |-> Round1(features_in[i].climate.temperature),
                                humidity |-> Round1(features_in[i].climate.humidity),
                                source |-> LoopSource(i)]
                  /\ (o.kind = "proba" /\ ~PredictionFailed(o)) =>
                        /\ rec.probability = Round4(o.p)
                        /\ rec.risk = (IF o.p < 30000 THEN "Low"
                                       ELSE IF o.p < 60000 THEN "Moderate" ELSE "High")

W_C6 ==
    /\ LoopAnswered
    /\ met.outcomes[1].kind = "malformed"
    /\ met.outcomes[2].kind = "raise"
    /\ met.outcomes[3] = Outcome("proba", PScale + 1)
    /\ met.outcomes[4] = Outcome("proba", 60000)
    /\ resp.weekly_forecast[2].probability = 45000
    /\ resp.weekly_forecast[4].risk = "High"

\* C7 as stated: a week whose processing raises outside the classifier call
\* gets the fallback record with climate equal to the caller's base climate.
CE_C7 ==
    LoopAnswered =>
        \A i \in Weeks :
            (met.outcomes[i].kind = "features_raise") =>
                IsFallbackRecord(resp.weekly_forecast[i],
                                 Verbatim(req.climate, "fallback"))

\* C7 amended: a week whose processing raises outside the classifier call
\* gets exactly the fallback record: risk Moderate, probability 0.45,
\* provenance "fallback" and the caller's base climate (neither clamped nor
\* the historical estimate) rounded to one decimal; every other week keeps
\* the record of its own climate and its own provenance.
T_C7 ==
    LoopAnswered =>
        \A i \in Weeks :
            LET rec == resp.weekly_forecast[i]
            IN  IF met.outcomes[i].kind = "features_raise"
                THEN /\ IsFallbackRecord(rec,
                           [rainfall |-> Round1(req.climate.rainfall),
                            temperature |-> Round1(req.climate.temperature),
                            humidity |-> Round1(req.climate.humidity),
                            source |-> "fallback"])
                     /\ rec.week = format_week_range(strptime(req.date) + 7 * (i - 1))
                ELSE rec.climate_used =
                         [rainfall |-> Round1(features_in[i].climate.rainfall),
                          temperature |-> Round1(features_in[i].climate.temperature),
                          humidity |-> Round1(features_in[i].climate.humidity),
                          source |-> LoopSource(i)]

W_C7 ==
    /\ LoopAnswered
    /\ met.outcomes[2].kind = "features_raise"
    /\ met.outcomes[3].kind = "proba"
    /\ req.climate.temperature = Dec(10, 0)
    /\ resp.weekly_forecast[2].climate_used.temperature = Dec(10, 0)
    /\ resp.weekly_forecast[3].climate_used.source = "historical_average"

\* the baseline holds an entry for the week or the month of ordinal n
BaselineCovers(historical, n) ==
    /\ ~historical.isNone
    /\ \/ IsoWeek(n) \in DOMAIN historical.weekly
       \/ MonthOf(n) \in DOMAIN historical.monthly

\* C8: a record of week 1..3 carries provenance "historical_average" only
\* when its climate came from the historical baseline, and carries
\* "fallback" when no baseline is loaded.
CE_C8 ==
    (resp.status = "ok") =>
        \A i \in 2..4 :
            LET source == resp.weekly_forecast[i].climate_used.source
            IN  /\ (source = "historical_average") =>
                       BaselineCovers(historical_climate,
                                      strptime(req.date) + 7 * (i - 1))
                /\ historical_climate.isNone => source = "fallback"

\* C9: for week index i in 1..3 of an accepted request the climate used is
\* the clamped value of get_historical_climate_for_date(start_date + 7*i
\* days, base_climate, week_offset = i) with the caller's original climate
\* as base_climate, and the loop's record reports it rounded to one decimal.
T_C9 ==
    (resp.status = "ok") =>
        \A i \in 2..4 :
            LET e == get_historical_climate_for_date(
                         strptime(req.date) + 7 * (i - 1), SomeClimate(req.climate),
                         i - 1, historical_climate)
                used == Climate(Max(0, e.rainfall),
                                Max(20 * CScale, Min(35 * CScale, e.temperature)),
                                Max(40 * CScale, Min(100 * CScale, e.humidity)))
            IN  /\ features_in[i].climate = used
                /\ features_in[i].week_start = strptime(req.date) + 7 * (i - 1)
                /\ (LoopAnswered /\ met.outcomes[i].kind # "features_raise") =>
                       /\ resp.weekly_forecast[i].climate_used.rainfall =
                              Round1(used.rainfall)
                       /\ resp.weekly_forecast[i].climate_used.temperature =
                              Round1(used.temperature)
                       /\ resp.weekly_forecast[i].climate_used.humidity =
                              Round1(used.humidity)

W_C9 ==
    /\ LoopAnswered
    /\ req.climate.temperature = Dec(10, 0)
    /\ ~historical_climate.isNone /\ historical_climate.weekly = <<>>
    /\ features_in[3].climate = Climate(0, Dec(20, 0), Dec(40, 0))
    /\ met.outcomes[3].kind = "proba"

\* the drift of one tier: rainfall * (1 + k * rpct / 100), temperature + k * t,
\* humidity + k * h
Drifted(c, k, rpct, t, h) ==
    Climate((c.rainfall * (100 + k * rpct)) \div 100, c.temperature + k * t,
            c.humidity + k * h)

\* C10: get_historical_climate_for_date takes its source in a fixed order:
\* (a) no baseline: base_climate with drift if given, else the default
\* triple; (b) the weekly entry of the target date's ISO week if present;
\* (c) else the monthly entry of its month if present; (d) else base_climate
\* with drift if given, else the default triple.
T_C10 ==
    (call.fn = "get_historical_climate_for_date" /\ ret.done) =>
        LET h == call.historical
            k == call.week_offset
            b == call.base_climate
            week == IsoWeek(call.target_date)
            month == MonthOf(call.target_date)
            tierA == h.isNone
            tierB == ~tierA /\ week \in DOMAIN h.weekly
            tierC == ~tierA /\ ~tierB /\ month \in DOMAIN h.monthly
            tierD == ~tierA /\ ~tierB /\ ~tierC
        IN  /\ tierA => ret.climate = (IF b.given THEN Drifted(b.c, k, 2, 1000, 5000)
                                       ELSE Climate(Dec(100, 0), Dec(28, 0), Dec(75, 0)))
            /\ tierB => ret.climate = Drifted(h.weekly[week], k, 3, 2000, 3000)
            /\ tierC => ret.climate = Drifted(h.monthly[month], k, 5, 3000, 5000)
            /\ tierD => ret.climate = (IF b.given THEN Drifted(b.c, k, 3, 2000, 4000)
                                       ELSE Climate(Dec(100, 0), Dec(28, 0), Dec(75, 0)))

W_C10 ==
    /\ call.fn = "get_historical_climate_for_date" /\ ret.done
    /\ ~call.historical.isNone
    /\ IsoWeek(call.target_date) \notin DOMAIN call.historical.weekly
    /\ MonthOf(call.target_date) \in DOMAIN call.historical.monthly
    /\ call.week_offset = 2
    /\ call.base_climate.given
    /\ ret.climate = Climate(Dec(73, 61) + 20, Dec(30, 70), Dec(86, 83))

\* C11: with a baseline and week_offset = 0 the estimator returns exactly the
\* stored triple of the target date's ISO week, or of its month when the week
\* is absent: no drift, and nothing of base_climate.
T_C11 ==
    (call.fn = "get_historical_climate_for_date" /\ ret.done
        /\ ~call.historical.isNone /\ call.week_offset = 0) =>
        LET h == call.historical
            week == IsoWeek(call.target_date)
            month == MonthOf(call.target_date)
        IN  /\ (week \in DOMAIN h.weekly) => ret.climate = h.weekly[week]
            /\ (week \notin DOMAIN h.weekly /\ month \in DOMAIN h.monthly) =>
                   ret.climate = h.monthly[month]

W_C11 ==
    /\ call.fn = "get_historical_climate_for_date" /\ ret.done
    /\ call.week_offset = 0
    /\ call.target_date = ToOrdinal(2025, 1, 22)
    /\ call.base_climate = SomeClimate(Climate(Dec(55, 56), Dec(10, 0), Dec(99, 90)))
    /\ ret.climate = Climate(Dec(66, 92), Dec(30, 10), Dec(85, 83))

\* C12: for week_offset k > 0 and a weekly baseline entry (r, t, h) of the
\* target date's ISO week, the estimator returns rainfall r * (1 + 0.03 * k),
\* temperature t + 0.2 * k and humidity h + 0.3 * k.
T_C12 ==
    (call.fn = "get_historical_climate_for_date" /\ ret.done
        /\ ~call.historical.isNone /\ call.week_offset > 0
        /\ IsoWeek(call.target_date) \in DOMAIN call.historical.weekly) =>
        LET e == call.historical.weekly[IsoWeek(call.target_date)]
            k == call.week_offset
        IN  /\ 100 * ret.climate.rainfall = e.rainfall * (100 + 3 * k)
            /\ 10 * ret.climate.temperature = 10 * e.temperature + 2 * k * CScale
            /\ 10 * ret.climate.humidity = 10 * e.humidity + 3 * k * CScale

W_C12 ==
    /\ call.fn = "get_historical_climate_for_date" /\ ret.done
    /\ call.week_offset = 3
    /\ call.target_date = ToOrdinal(2025, 1, 8)
    /\ ret.climate = Climate(Dec(109, 41) + 42, Dec(28, 30), Dec(79, 90))

\* the three values lie in the ranges of the clamp
InClampRanges(c) ==
    /\ c.rainfall >= 0
    /\ 20 * CScale <= c.temperature /\ c.temperature <= 35 * CScale
    /\ 40 * CScale <= c.humidity /\ c.humidity <= 100 * CScale

\* C13: for every week of an accepted request that is processed without a
\* whole-week failure, the climate handed to prepare_features and the climate
\* reported in the record satisfy rainfall >= 0, 20 <= temperature <= 35 and
\* 40 <= humidity <= 100, whatever the estimate was before the clamp.
T_C13 ==
    LoopAnswered =>
        \A i \in Weeks :
            (met.outcomes[i].kind # "features_raise") =>
                /\ InClampRanges(features_in[i].climate)
                /\ InClampRanges(resp.weekly_forecast[i].climate_used)

W_C13 ==
    /\ LoopAnswered /\ historical_climate.isNone
    /\ req.climate = Climate(Dec(55, 56), Dec(50, 0), Dec(99, 97))
    /\ met.outcomes[2].kind = "proba"
    /\ features_in[2].climate.temperature = Dec(35, 0)
    /\ resp.weekly_forecast[2].climate_used.humidity = Dec(100, 0)

\* the columns prepare_features computes itself
BuilderColumns ==
    LET features == ComputedFeatures(0, 0, 0, 0, 1)
    IN  {features[i][1] : i \in DOMAIN features}

\* C14: with a feature-name list loaded, prepare_features returns one row
\* whose columns are exactly that list in that order; a listed column the
\* builder does not compute (prev_month_cases, rolling_3mo_avg_cases) holds
\* 0, a listed column it computes holds the computed value, and computed
\* columns outside the list are absent.
T_C14 ==
    (call.fn = "prepare_features" /\ ret.done /\ ~call.names.isNone) =>
        LET list == call.names.list
            full == prepare_features(call.climate.rainfall, call.climate.temperature,
                                     call.climate.humidity, call.barangay, call.date,
                                     call.encoder, NoFeatureNames)
        IN  /\ Len(ret.features) = Len(list)
            /\ \A i \in DOMAIN list :
                  /\ ret.features[i][1] = list[i]
                  /\ (list[i] \notin BuilderColumns) => ret.features[i][2] = Num(0)
                  /\ (list[i] \in BuilderColumns) =>
                        \E j \in DOMAIN full : full[j] = ret.features[i]
            /\ \A i \in DOMAIN list :
                  (list[i] \in {"prev_month_cases", "rolling_3mo_avg_cases"}) =>
                      ret.features[i] = << list[i], Num(0) >>

W_C14 ==
    /\ call.fn = "prepare_features" /\ ret.done
    /\ call.names = FeatureNames(TrainedFeatureNames)
    /\ Len(ret.features) = 40
    /\ ret.features[4] = << "prev_month_cases", Num(0) >>
    /\ ret.features[5] = << "rolling_3mo_avg_cases", Num(0) >>
    /\ ret.features[8] = << "quarter", Num(4) >>

\* C15: the quarter feature prepare_features computes for a date is the
\* quarter feature the training pipeline computes for a row of that date.
CE_C15 ==
    (call.fn = "prepare_features" /\ ret.done /\ call.names.isNone) =>
        \A i \in DOMAIN ret.features :
            (ret.features[i][1] = "quarter") =>
                ret.features[i][2] = Num(create_advanced_features_quarter(call.date))

\* the name is neither a canonical barangay nor an alias, in any case and
\* with any surrounding white space
UnknownLocation(s) ==
    /\ \A i \in DOMAIN BARANGAYS : BARANGAYS[i] # strip(s)
    /\ \A i \in DOMAIN barangay_variations :
          barangay_variations[i][1] # lower(strip(s))

\* C16: location normalization trims white space and matches the alias
\* table without regard to case: "zone 2", "Zone2" and " Zone II " all become
\* "Zone II"; and the name predict normalized is left unchanged when
\* prepare_features normalizes it again.
T_C16 ==
    (resp.status = "ok") =>
        \A i \in Weeks :
            /\ (req.barangay \in { <<"z", "o", "n", "e", " ", "2">>,
                                   <<"Z", "o", "n", "e", "2">>,
                                   <<" ", "Z", "o", "n", "e", " ", "I", "I", " ">> }) =>
                   features_in[i].barangay = <<"Z", "o", "n", "e", " ", "I", "I">>
            /\ features_in[i].barangay_normalized = features_in[i].barangay

W_C16 ==
    /\ LoopAnswered
    /\ req.barangay = <<" ", "Z", "o", "n", "e", " ", "I", "I", " ">>
    /\ features_in[2].barangay_normalized = ZoneII
    /\ features_in[2].barangay_encoded = 4

\* C17: a request whose location is no known alias or canonical name is not
\* rejected, and every prepare_features call encodes the location as 0, with
\* a persisted encoder and with the fallback table alike; 0 is also the code
\* of "General Paulino Santos".
T_C17 ==
    /\ (resp # Idle /\ model # "None" /\ RequestValid /\ UnknownLocation(req.barangay)) =>
          /\ resp.status = "ok"
          /\ Len(resp.weekly_forecast) = 4
          /\ \A i \in Weeks : features_in[i].barangay_encoded = 0
    /\ (resp.status = "ok" /\ req.barangay = GeneralPaulinoSantos) =>
          \A i \in Weeks : features_in[i].barangay_encoded = 0
    /\ Lookup(barangay_map, GeneralPaulinoSantos) = 0

W_C17 ==
    /\ LoopAnswered
    /\ req.barangay = <<"A", "t", "l", "a", "n", "t", "i", "s">>
    /\ barangay_encoder = "encoder"
    /\ features_in[1].barangay = <<"A", "t", "l", "a", "n", "t", "i", "s">>
    /\ features_in[1].barangay_encoded = 0

\* the request in flight has a temperature outside [0, 50], a humidity
\* outside [0, 100], a negative rainfall or a date that is no YYYY-MM-DD date
RequestInvalid ==
    \/ req.climate.temperature < 0 \/ req.climate.temperature > 50 * CScale
    \/ req.climate.humidity < 0 \/ req.climate.humidity > 100 * CScale
    \/ req.climate.rainfall < 0
    \/ ~DateParses(req.date)

\* C18 as stated: an invalid forecast request is rejected with a client
\* error before any week is processed, and no WeekResult is produced.
CE_C18 ==
    (resp # Idle /\ RequestInvalid) =>
        /\ resp.status = "http_400"
        /\ resp.weekly_forecast = NoForecast
        /\ features_in = <<>>

\* C18 amended: an invalid forecast request is rejected before any week is
\* processed and no WeekResult is produced for it; the rejection is the
\* client error 400 when a classifier is loaded, and the error 503 of every
\* request when no classifier can be loaded.
T_C18 ==
    (resp # Idle /\ RequestInvalid) =>
        /\ resp.status = (IF model = "None" THEN "http_503" ELSE "http_400")
        /\ resp.weekly_forecast = NoForecast
        /\ features_in = <<>>
        /\ met = NothingMet

W_C18 ==
    /\ resp.status = "http_400"
    /\ req.climate.humidity = Dec(100, 1)
    /\ DateParses(req.date)
    /\ model # "None"

\* C19: once load_historical_climate has computed a baseline, no operation
\* (predict, health check, climate upload, retrain) and no change of
\* climate.csv changes or clears the cached baseline: every later call
\* returns it as it is; only a restart of the process replaces it.
T_C19 ==
    [][(~historical_climate.isNone /\ phase' # "boot") =>
           historical_climate' = historical_climate]_vars

W_C19 ==
    /\ LoopAnswered
    /\ historical_climate = ComputeBaseline(<<>>)
    /\ disk.climate_csv = CsvFile("ok", ClimateRows)
    /\ disk.model_file = "retrained"

\* C20 as stated: once a classifier is loaded, no operation replaces the
\* classifier reference or sets it back to unloaded.
CE_C20 ==
    [][(model # "None" /\ phase' # "boot") => model' = model]_vars

\* C20 amended: once a classifier is loaded, no predict, health-check or
\* climate-upload operation and no failed retrain replaces the classifier
\* reference or sets it back to unloaded; only a retrain whose script exits
\* with status 0 assigns it again, to what the reload from disk returns.
T_C20 ==
    [][(model # "None" /\ phase' # "boot" /\ resp'.status # "retrain_200") =>
           model' = model]_vars

W_C20 ==
    /\ resp.status = "retrain_200"
    /\ model = "retrained"
    /\ feature_names = "from_file"

\* a reading as the claims describe a valid one: its date parses and
\* 0 <= rainfall <= 500, 20 <= temperature <= 35, 40 <= humidity <= 100
ValidReading(row) ==
    /\ DateParses(row.date)
    /\ 0 <= row.rainfall /\ row.rainfall <= Dec(500, 0)
    /\ Dec(20, 0) <= row.temperature /\ row.temperature <= Dec(35, 0)
    /\ Dec(40, 0) <= row.humidity /\ row.humidity <= Dec(100, 0)

\* climate.csv is there and holds no valid reading
SourceWithoutReadings ==
    /\ disk.climate_csv.state = "ok"
    /\ \A i \in DOMAIN disk.climate_csv.rows : ~ValidReading(disk.climate_csv.rows[i])

\* C21 as stated: when climate.csv is missing or holds no valid row, the
\* baseline is None and every lookup returns the triple (100.0, 28.0, 75.0).
CE_C21 ==
    \A t \in Tasks :
        (ret[t].pc = "done"
            /\ (disk.climate_csv.state = "missing" \/ SourceWithoutReadings)) =>
            /\ ret[t].historical.isNone
            /\ ret[t].climate = Climate(Dec(100, 0), Dec(28, 0), Dec(75, 0))

\* C21 amended: when climate.csv is missing the baseline is None; when it
\* holds no valid row the baseline is a dict with an empty weekly and an empty
\* monthly table; in both cases a lookup without base climate returns
\* (100.0, 28.0, 75.0), and a lookup with a base climate returns the base
\* climate drifted by (2%, 0.1, 0.5) per week offset when the baseline is
\* None and by (3%, 0.2, 0.4) when its tables are empty.
T_C21 ==
    \A t \in Tasks :
        (ret[t].pc = "done"
            /\ (disk.climate_csv.state = "missing" \/ SourceWithoutReadings)) =>
            LET b == call[t].base_climate
                k == call[t].week_offset
                h == ret[t].historical
            IN  /\ (disk.climate_csv.state = "missing") => h.isNone
                /\ SourceWithoutReadings =>
                       (~h.isNone /\ h.weekly = <<>> /\ h.monthly = <<>>)
                /\ ~b.given =>
                       ret[t].climate = Climate(Dec(100, 0), Dec(28, 0), Dec(75, 0))
                /\ (b.given /\ h.isNone) =>
                       ret[t].climate = Drifted(b.c, k, 2, 1000, 5000)
                /\ (b.given /\ ~h.isNone) =>
                       ret[t].climate = Drifted(b.c, k, 3, 2000, 4000)

W_C21 ==
    /\ ret[1].pc = "done"
    /\ disk.climate_csv = CsvFile("ok", << PoolRows[5], PoolRows[10] >>)
    /\ call[1].week_offset = 2
    /\ ~ret[1].historical.isNone
    /\ ret[1].climate = Climate(Dec(58, 89) + 36, Dec(10, 40), Dec(100, 70))

\* C22: a forecast asked for again with the same location, date and base
\* climate, the baseline and the classifier being the same from the end of
\* the first call to the end of the second, is answered with the same
\* status and the same 4 records, field for field.
T_C22 ==
    [][(/\ resp = Idle /\ resp' # Idle
        /\ ret.answered /\ ret.req = req'
        /\ ret.globals.model = model /\ model' = model
        /\ ret.globals.historical_climate = historical_climate
        /\ historical_climate' = historical_climate) =>
           resp' = ret.resp]_vars

W_C22 ==
    /\ LoopAnswered
    /\ ret.answered /\ ret.req = req /\ ret.resp = resp
    /\ ret.globals = Globals
    /\ disk.climate_csv = CsvFile("ok", ClimateRows)
    /\ historical_climate = ComputeBaseline(<<>>)
    /\ req.climate = Climate(Dec(100, 0), Dec(28, 0), Dec(75, 0))
    /\ resp.weekly_forecast[2].probability = 75400
    /\ resp.weekly_forecast[2].risk = "High"

\* the sum of field fld over the rows whose index is in S, among the first n
RECURSIVE SumAt(_, _, _, _)
SumAt(rows, S, fld, n) ==
    IF n = 0 THEN 0
    ELSE (IF n \in S THEN rows[n][fld] ELSE 0) + SumAt(rows, S, fld, n - 1)

\* the means of the three readings over the rows whose index is in S, to two
\* decimals
MeansOver(rows, S) ==
    Climate(Round2Frac(SumAt(rows, S, "rainfall", Len(rows)), Cardinality(S)),
            Round2Frac(SumAt(rows, S, "temperature", Len(rows)), Cardinality(S)),
            Round2Frac(SumAt(rows, S, "humidity", Len(rows)), Cardinality(S)))

\* C23: a row of climate.csv contributes to the weekly and monthly baselines
\* if and only if its date parses and 0 <= rainfall <= 500,
\* 20 <= temperature <= 35, 40 <= humidity <= 100 (bounds included): the
\* baseline has an entry for exactly the ISO weeks and months of such rows,
\* and each entry is the mean over such rows only, other rows being dropped
\* and not clamped.
T_C23 ==
    (~historical_climate.isNone) =>
        LET rows == disk.climate_csv.rows
            hc == historical_climate
            InWeek(w) == {i \in DOMAIN rows : ValidReading(rows[i])
                             /\ IsoWeek(strptime(rows[i].date)) = w}
            InMonth(m) == {i \in DOMAIN rows : ValidReading(rows[i])
                              /\ MonthOf(strptime(rows[i].date)) = m}
        IN  /\ DOMAIN hc.weekly = {w \in 1..53 : InWeek(w) # {}}
            /\ DOMAIN hc.monthly = {m \in 1..12 : InMonth(m) # {}}
            /\ \A w \in DOMAIN hc.weekly : hc.weekly[w] = MeansOver(rows, InWeek(w))
            /\ \A m \in DOMAIN hc.monthly : hc.monthly[m] = MeansOver(rows, InMonth(m))

W_C23 ==
    /\ ~historical_climate.isNone
    /\ disk.climate_csv = CsvFile("ok", << PoolRows[2], PoolRows[4] >>)
    /\ DOMAIN historical_climate.weekly = {2}
    /\ historical_climate.weekly[2] = Climate(Dec(500, 0), Dec(35, 0), Dec(100, 0))
    /\ DOMAIN historical_climate.monthly = {1}

\* request passes the climate and date checks of predict
Accepted(request) == ClimateAccepted(request.climate) /\ DateParses(request.date)

\* C24: predict_batch returns one result per request, in the order of the
\* requests whatever order the forecasts completed in; the result at position
\* i is the forecast of request i, or an error entry when request i is
\* rejected, the other positions being as they are without it; and
\* predict_all_barangays returns one forecast per barangay under that
\* barangay's name.
T_C24 ==
    /\ (resp.status = "batch_200") =>
          LET results == resp.weekly_forecast
              requests == call.requests
          IN  /\ Len(results) = Len(requests)
              /\ \A i \in DOMAIN requests :
                    /\ results[i].barangay = requests[i].barangay
                    /\ results[i].date = requests[i].date
                    /\ results[i].kind =
                           (IF Accepted(requests[i]) THEN "forecast" ELSE "error")
                    /\ results[i] =
                           process_single(requests[i],
                                          predict(requests[i], Globals, disk))
    /\ (resp.status = "all_200") =>
          LET predictions == resp.weekly_forecast
          IN  /\ DOMAIN predictions = {BARANGAYS[i] : i \in DOMAIN BARANGAYS}
              /\ \A i \in DOMAIN BARANGAYS :
                    /\ call.requests[i].barangay = BARANGAYS[i]
                    /\ predictions[BARANGAYS[i]] =
                           BarangayResult(call.requests[i],
                                          predict(call.requests[i], Globals, disk))

W_C24 ==
    /\ resp.status = "batch_200"
    /\ ret.order = << 3, 1, 2 >>
    /\ call.requests[1].barangay = StoNino
    /\ resp.weekly_forecast[1].kind = "error"
    /\ resp.weekly_forecast[2].kind = "forecast"
    /\ resp.weekly_forecast[2].barangay = ZoneII
    /\ resp.weekly_forecast[3].barangay = SantaCruz

\* C25: however the steps of concurrent first initializations of the
\* baseline interleave over an unchanged climate.csv, the cache holds None or
\* the baseline one initialization alone computes, it holds that baseline
\* once the initializations are over, and the baseline a lookup is handed is
\* that baseline, never another or a partly built one.
T_C25 ==
    LET single == load_historical_climate(NoHistorical, disk.climate_csv)
    IN  /\ historical_climate \in {NoHistorical, single}
        /\ \A t \in Tasks :
              (ret[t].pc \in {"lookup", "done"}) => ret[t].historical = single
        /\ (\A t \in Tasks : ret[t].pc = "done") => historical_climate = single

W_C25 ==
    /\ disk.climate_csv = CsvFile("ok", ClimateRows)
    /\ ret[1].pc = "done"
    /\ ret[2].pc = "assign"
    /\ ret[2].built = ComputeBaseline(ClimateRows)
    /\ historical_climate = ComputeBaseline(ClimateRows)
    /\ ret[1].historical = historical_climate

\* C26: for week_offset k > 0 the drift depends on the tier: a monthly entry
\* (r, t, h) gives (r * (1 + 0.05 k), t + 0.3 k, h + 0.5 k); no baseline and a
\* base climate give (r * (1 + 0.02 k), t + 0.1 k, h + 0.5 k) of the base; a
\* baseline with neither the week nor the month and a base climate give
\* (r * (1 + 0.03 k), t + 0.2 k, h + 0.4 k) of the base.
T_C26 ==
    (call.fn = "get_historical_climate_for_date" /\ ret.done /\ call.week_offset > 0) =>
        LET h == call.historical
            k == call.week_offset
            b == call.base_climate.c
            c == ret.climate
            week == IsoWeek(call.target_date)
            month == MonthOf(call.target_date)
            IsDrift(e, rpct, t10, h10) ==
                /\ 100 * c.rainfall = e.rainfall * (100 + rpct * k)
                /\ 10 * c.temperature = 10 * e.temperature + t10 * k * CScale
                /\ 10 * c.humidity = 10 * e.humidity + h10 * k * CScale
        IN  /\ (~h.isNone /\ week \notin DOMAIN h.weekly /\ month \in DOMAIN h.monthly) =>
                   IsDrift(h.monthly[month], 5, 3, 5)
            /\ (h.isNone /\ call.base_climate.given) => IsDrift(b, 2, 1, 5)
            /\ (~h.isNone /\ week \notin DOMAIN h.weekly /\ month \notin DOMAIN h.monthly
                   /\ call.base_climate.given) => IsDrift(b, 3, 2, 4)

W_C26 ==
    /\ call.fn = "get_historical_climate_for_date" /\ ret.done
    /\ call.week_offset = 3
    /\ call.historical = ComputeBaseline(ClimateRows)
    /\ call.target_date = ToOrdinal(2025, 3, 3)
    /\ call.base_climate = SomeClimate(Climate(Dec(55, 56), Dec(10, 0), Dec(99, 90)))
    /\ ret.climate = Climate(Dec(60, 56) + 4, Dec(10, 60), Dec(101, 10))

\* C27: within one forecast the climate triples used for forecast weeks 2, 3
\* and 4 (indices 1, 2, 3) are pairwise not identical, for every baseline and
\* base climate.
CE_C27 ==
    (resp.status = "ok") =>
        /\ features_in[2].climate # features_in[3].climate
        /\ features_in[2].climate # features_in[4].climate
        /\ features_in[3].climate # features_in[4].climate

\* C28: in every record of every response the risk label is the threshold
\* rule (Low below 0.30, Moderate below 0.60, else High) applied to the
\* probability reported in that record, the outbreak probability rounded to
\* 4 decimals.
CE_C28 ==
    (resp.status = "ok") =>
        \A i \in Weeks :
            LET record == resp.weekly_forecast[i]
            IN  /\ record.risk = (IF record.probability < 30000 THEN "Low"
                                  ELSE IF record.probability < 60000 THEN "Moderate"
                                  ELSE "High")
                /\ record.outbreak_probability = record.probability

\* C29: in every state of the serving process, also after a load that failed
\* part-way and after a retrain, a loaded classifier comes with a loaded
\* feature-name list: model is not None implies feature_names is not None.
CE_C29 ==
    (model # "None") => feature_names # "None"

\* C30 as stated: every climate_used triple of a predict response, whatever
\* its provenance, satisfies rainfall >= 0, 20 <= temperature <= 35 and
\* 40 <= humidity <= 100.
CE_C30 ==
    (resp.status = "ok") =>
        \A i \in Weeks : InClampRanges(resp.weekly_forecast[i].climate_used)

\* C30 amended: a climate_used triple of provenance "current" or
\* "historical_average" satisfies rainfall >= 0, 20 <= temperature <= 35 and
\* 40 <= humidity <= 100; a triple of provenance "fallback" is the caller's
\* base climate rounded to one decimal, not clamped, and satisfies the
\* bounds of the request validation: rainfall >= 0, 0 <= temperature <= 50
\* and 0 <= humidity <= 100.
T_C30 ==
    (resp.status = "ok") =>
        \A i \in Weeks :
            LET used == resp.weekly_forecast[i].climate_used
            IN  /\ used.source \in {"current", "historical_average", "fallback"}
                /\ (used.source # "fallback") =>
                       /\ used.rainfall >= 0
                       /\ Dec(20, 0) <= used.temperature /\ used.temperature <= Dec(35, 0)
                       /\ Dec(40, 0) <= used.humidity /\ used.humidity <= Dec(100, 0)
                /\ (used.source = "fallback") =>
                       /\ used.rainfall = Round1(req.climate.rainfall)
                       /\ used.temperature = Round1(req.climate.temperature)
                       /\ used.humidity = Round1(req.climate.humidity)
                       /\ used.rainfall >= 0
                       /\ 0 <= used.temperature /\ used.temperature <= Dec(50, 0)
                       /\ 0 <= used.humidity /\ used.humidity <= Dec(100, 0)

W_C30 ==
    /\ LoopAnswered
    /\ met.outcomes[1].kind = "proba"
    /\ met.outcomes[2].kind = "features_raise"
    /\ resp.weekly_forecast[1].climate_used.source = "current"
    /\ resp.weekly_forecast[1].climate_used.temperature = Dec(20, 0)
    /\ resp.weekly_forecast[2].climate_used.source = "fallback"
    /\ resp.weekly_forecast[2].climate_used.temperature = Dec(10, 0)
    /\ resp.weekly_forecast[2].climate_used.humidity = Dec(20, 0)

====
